---- MODULE Spec2Model ----
(***************************************************************************)
(* Verification model of the searchfast repository.                        *)
(*                                                                         *)
(*  Part I   ThreadSafeQueue   (include/utils/thread_safe_queue.h)         *)
(*  Part II  FastFileSearchEngine crawler and search (FastFileSearch.cpp)  *)
(*  Part III LRUCache          (include/storage/cache_manager.h)           *)
(*  Part IV  SearchResults     (src/core/types.cpp)                        *)
(*  Part V   The three directory walks' per-entry rule                     *)
(*  Part VI  AppSettings, SearchQuery, FileEntry (src/core/types.cpp)      *)
(*  Part VII FileWatcher event processor (include/engine/file_watcher.h;   *)
(*           declared there, its behaviour taken from the specification)   *)
(*  Part VIII MemoryIndex and InvertedIndex (include/storage/              *)
(*           memory_index.h; likewise), as IndexManager drives them        *)
(*  Part IX  ProgressiveIndexer (include/engine/progressive_indexer.h;     *)
(*           likewise)                                                     *)
(*  Part X   Logger (src/core/logger.cpp)                                  *)
(*                                                                         *)
(* Each part has its own variables, initial condition and next-state       *)
(* relation; a part's specification leaves the other parts' variables      *)
(* unchanged.                                                              *)
(***************************************************************************)
EXTENDS Integers, Sequences, FiniteSets, TLC

VARIABLES
    \* ---- Part I: ThreadSafeQueue ----
    queue_,      \* std::queue<T> queue_, front first
    shutdown_,   \* std::atomic<bool> shutdown_
    mutex_,      \* owner of std::mutex mutex_, or "none"
    condition_,  \* the consumers blocked in condition_.wait / wait_for
    qpc,         \* position of every queue thread inside the call it executes
    pushed,      \* per producer: number of push calls made, outcome and return of the last one
    ret,         \* per consumer: outcome of its last pop call
    popLog,      \* the dequeued elements, in dequeue order
    ctlOps,      \* number of shutdown / clear / restart calls made so far
    \* ---- Part II: FastFileSearchEngine ----
    m_fileIndex,    \* std::vector<FileInfo> m_fileIndex
    m_indexMutex,   \* owner of std::mutex m_indexMutex, or "none"
    m_indexedFiles, \* std::atomic<size_t> m_indexedFiles
    m_isIndexing,   \* std::atomic<bool> m_isIndexing
    m_shouldStop,   \* std::atomic<bool> m_shouldStop
    bg,             \* the thread m_backgroundIndexer: its position and loop index
    worker,         \* every crawler worker thread: state, position, directory stack, FileInfo in hand
    ui,             \* the window thread: its position, and the search it is running
    afterStop,      \* per worker: records it appended while m_shouldStop was set
    lateStart,      \* the workers that were created while m_shouldStop was set
    statusLog,      \* the counter values the progress SetStatus calls carried, in call order
    \* ---- Part III: LRUCache ----
    nodeList_,      \* NodeList nodeList_, front (most recently used) first
    hashMap_,       \* HashMap hashMap_: key -> the node its iterator designates
    capacity_,      \* size_t capacity_
    currentSize_,   \* size_t currentSize_
    hitCount_,      \* size_t hitCount_
    missCount_,     \* size_t missCount_
    evictionCount_, \* size_t evictionCount_
    now_,           \* the next reading of std::chrono::steady_clock::now()
    lruOps,         \* number of member functions called so far
    lastOp,         \* the last call: function, key, whether the key was found, keys evicted,
                    \* the value or capacity passed, the value returned
    lastPut,        \* per key: the value passed to the most recent put of that key
    \* ---- Part IV: SearchResults ----
    results_,       \* std::vector<SearchResult> results_
    sortLog,        \* the relevance sorts made so far: what each was given and what it left
    \* ---- Part V: the directory walks' loop body ----
    findData,       \* WIN32_FIND_DATA findData: name, attributes, directory or file
    entryOutcome,   \* which walk handled findData and what it did with it
    \* ---- Part VI: AppSettings, SearchQuery, FileEntry ----
    appSettings,    \* an AppSettings object: its numeric members
    sanitized,      \* whether sanitize() was the last call to change appSettings
    defaultsFor,    \* what hardware_concurrency() returned to the setDefaults() call that
                    \* was the last to change appSettings, or -1
    validated,      \* what validate() returned for appSettings as they are, or "none"
    searchQuery,    \* a SearchQuery object: query, maxResults, fuzzyThreshold
    queryValid,     \* what isValid() returned for searchQuery as it is, or "none"
    fileEntry,      \* a FileEntry object: fileName, extension, normalizedName, tokens
    \* ---- Part VII: FileWatcher ----
    eventQueue_,    \* ThreadSafeQueue<FileChangeEvent> eventQueue_, front first
    recentEvents_,  \* recentEvents_: per path, when its coalescing window opened, or -1
    heldEvent,      \* per path, the type of the event the window holds, or "none"
    dispatched,     \* the events handed to the indexer, in order
    steadyClock,    \* the reading of std::chrono::steady_clock
    received,       \* the events the processor took from the queue, with the time of receipt
    \* ---- Part VIII: MemoryIndex ----
    files_,         \* files_: record id -> [path, tokens], or NoFile
    pathToId_,      \* pathToId_: path -> record id, or 0
    tokenToFiles_,  \* InvertedIndex::tokenToFiles_: token -> set of ids
    fileToTokens_,  \* InvertedIndex::fileToTokens_: id -> set of tokens
    totalFiles_,    \* std::atomic<size_t> totalFiles_
    nextFileId_,    \* the id the next created record gets
    indexLock,      \* the reader-writer lock mutex_: [writer, readers]
    todo,           \* the mutations the writer has still to make inside its critical section
    txn,            \* the change event applied last, with what the writer looked up when it began
    changes,        \* number of change events begun
    reader,         \* a reader thread: [pc, p, q, seen]
    countSeen,      \* the value getFileCount() returned last, and the number of the change
                    \* event the writer was applying then (0: the writer was not at work)
    \* ---- Part IX: ProgressiveIndexer ----
    nodeState,         \* DirectoryNode::state of every directory node
    loadingQueue_,     \* std::queue<DirectoryNode> loadingQueue_, front first
    currentlyLoading_, \* std::unordered_set<std::string> currentlyLoading_
    loading,           \* per worker thread, the path it is loading, or "none"
    loadCalls,         \* per path, the number of load calls made for it
    evictions,         \* number of nodes the cache has evicted
    \* ---- Part X: Logger ----
    logLevel_,      \* Level logLevel_, as its number
    logQueue_,      \* std::queue<LogEntry> logQueue_, front first
    logMutex,       \* the logger's mutex_: "none", or the thread that holds it
    cvWaiting,      \* whether the worker is blocked in cv_.wait
    stopLogging_,   \* std::atomic<bool> stopLogging_
    logpc,          \* where the main thread and the worker thread are
    inHand,         \* the entry the worker has popped and not yet written
    written,        \* the entries writeLogEntry has written, in order
    accepted        \* the entries log() has queued, in order

qvars == <<queue_, shutdown_, mutex_, condition_, qpc, pushed, ret, popLog, ctlOps>>

evars == <<m_fileIndex, m_indexMutex, m_indexedFiles, m_isIndexing, m_shouldStop,
           bg, worker, ui, afterStop, lateStart, statusLog>>

lvars == <<nodeList_, hashMap_, capacity_, currentSize_, hitCount_, missCount_,
           evictionCount_, now_, lruOps, lastOp, lastPut>>

rvars == <<results_, sortLog>>

wvars == <<findData, entryOutcome>>

svars == <<appSettings, sanitized, defaultsFor, validated>>

kvars == <<searchQuery, queryValid>>

tvars == <<fileEntry>>

fvars == <<eventQueue_, recentEvents_, heldEvent, dispatched, steadyClock, received>>

mvars == <<files_, pathToId_, tokenToFiles_, fileToTokens_, totalFiles_, nextFileId_,
           indexLock, todo, txn, changes, reader, countSeen>>

pvars == <<nodeState, loadingQueue_, currentlyLoading_, loading, loadCalls, evictions>>

\* The variables of Parts VI to IX.
gvars == <<logLevel_, logQueue_, logMutex, cvWaiting, stopLogging_, logpc, inHand,
           written, accepted>>

xvars == <<svars, kvars, tvars, fvars, mvars, pvars, gvars>>

vars == <<qvars, evars, lvars, rvars, wvars, xvars>>

\* The variables of the other parts, which the actions of a part leave alone.
qOther == <<evars, lvars, rvars, wvars, xvars>>
eOther == <<qvars, lvars, rvars, wvars, xvars>>
lOther == <<qvars, evars, rvars, wvars, xvars>>
rOther == <<qvars, evars, lvars, wvars, xvars>>
wOther == <<qvars, evars, lvars, rvars, xvars>>
sOther == <<qvars, evars, lvars, rvars, wvars, kvars, tvars, fvars, mvars, pvars, gvars>>
kOther == <<qvars, evars, lvars, rvars, wvars, svars, tvars, fvars, mvars, pvars, gvars>>
tOther == <<qvars, evars, lvars, rvars, wvars, svars, kvars, fvars, mvars, pvars, gvars>>
fOther == <<qvars, evars, lvars, rvars, wvars, svars, kvars, tvars, mvars, pvars, gvars>>
mOther == <<qvars, evars, lvars, rvars, wvars, svars, kvars, tvars, fvars, pvars, gvars>>
pOther == <<qvars, evars, lvars, rvars, wvars, svars, kvars, tvars, fvars, mvars, gvars>>
gOther == <<qvars, evars, lvars, rvars, wvars, svars, kvars, tvars, fvars, mvars, pvars>>

(***************************************************************************)
(* Part I.  ThreadSafeQueue                                                *)
(***************************************************************************)

Producers == {"p1", "p2"}
Consumers == {"c1", "c2"}
Controller == "ctl"
QThreads == Producers \cup Consumers \cup {Controller}

\* The producers make at most MaxPush push calls in all; the controlling
\* thread makes at most MaxCtl shutdown / clear calls, and, where the queue
\* is restarted at all (QRNext), any number of restart calls.
MaxPush == 3
MaxCtl == 1

RECURSIVE SumOver(_, _)
SumOver(f, S) == IF S = {} THEN 0 ELSE LET x == CHOOSE y \in S : TRUE IN f[x] + SumOver(f, S \ {x})

\* Number of push calls made so far.
PushCalls == SumOver([p \in Producers |-> pushed[p].n], Producers)

\* The n-th element pushed by producer p.
Item(p, n) == <<p, n>>

\* What a pop call hands back: still running, false / null, or true (the
\* element handed back is then the last entry of popLog).  via names the
\* variant called and sd records whether the shutdown flag was set when the
\* call returned.
RetPending(variant) == [ok |-> "pending", via |-> variant, sd |-> FALSE]
RetFalse(variant) == [ok |-> "false", via |-> variant, sd |-> shutdown_]
RetTrue(variant) == [ok |-> "true", via |-> variant, sd |-> shutdown_]

\* queue_.push(item)
QueuePushFront(q, item) == <<item>> \o q
QueuePush(q, item) == Append(q, item)

\* queue_.front()
QueueFront(q) == Head(q)

\* queue_.pop()
QueuePop(q) == Tail(q)

\* if (shutdown_.load()) return;            (push, emplace)
PushSeesNoShutdown == FALSE
PushSeesShutdown == shutdown_

\* while (queue_.empty() && !shutdown_.load())
PopMustWait == queue_ = <<>> /\ ~shutdown_

\* wait_for predicate: !queue_.empty() || shutdown_.load()
TimedPred == queue_ # <<>> \/ shutdown_

\* if (shutdown_.load() && queue_.empty()) return false;
ShutdownOnly == shutdown_
ShutdownAndEmpty == shutdown_ /\ queue_ = <<>>

\* condition_.notify_one(): one blocked consumer, if any, is released.
NotifyOne(w) == IF w = {} THEN {w} ELSE {w \ {c} : c \in w}

QInit ==
    /\ queue_ = <<>>
    /\ shutdown_ = FALSE
    /\ mutex_ = "none"
    /\ condition_ = {}
    /\ qpc = [t \in QThreads |-> "idle"]
    /\ pushed = [p \in Producers |-> [n |-> 0, outcome |-> "none", ret |-> "none"]]
    /\ ret = [c \in Consumers |-> RetPending("none")]
    /\ popLog = <<>>
    /\ ctlOps = 0

\* ---- push(const T&) / push(T&&) / emplace ----

\* The unlocked test of the shutdown flag that opens push.
PushCheck(p) ==
    /\ qpc[p] = "idle"
    /\ PushCalls < MaxPush
    /\ IF PushSeesShutdown
         THEN /\ pushed' = [pushed EXCEPT ![p] = [n |-> @.n + 1, outcome |-> "dropped", ret |-> "void"]]
              /\ qpc' = qpc
         ELSE /\ pushed' = [pushed EXCEPT ![p] = [n |-> @.n + 1, outcome |-> "none", ret |-> "none"]]
              /\ qpc' = [qpc EXCEPT ![p] = "push_lock"]
    /\ UNCHANGED <<queue_, shutdown_, mutex_, condition_, ret, popLog, ctlOps, qOther>>

\* lock_guard; queue_.push(item); condition_.notify_one();
PushLocked(p) ==
    /\ qpc[p] = "push_lock"
    /\ mutex_ = "none"
    /\ queue_' = QueuePush(queue_, Item(p, pushed[p].n))
    /\ condition_' \in NotifyOne(condition_)
    /\ pushed' = [pushed EXCEPT ![p].outcome = "enqueued", ![p].ret = "void"]
    /\ qpc' = [qpc EXCEPT ![p] = "idle"]
    /\ UNCHANGED <<shutdown_, mutex_, ret, popLog, ctlOps, qOther>>

\* ---- bool pop(T&) / shared_ptr<T> pop(): blocking ----

PopCall(c) ==
    /\ qpc[c] = "idle"
    /\ qpc' = [qpc EXCEPT ![c] = "pop_lock"]
    /\ ret' = [ret EXCEPT ![c] = RetPending("pop")]
    /\ UNCHANGED <<queue_, shutdown_, mutex_, condition_, pushed, popLog, ctlOps, qOther>>

\* unique_lock lock(mutex_) (also the re-acquisition when wait() returns),
\* followed by the loop test.  Nothing but the flag can change between the
\* acquisition and the test, so the two are one step.
PopLock(c) ==
    /\ qpc[c] = "pop_lock"
    /\ c \notin condition_
    /\ mutex_ = "none"
    /\ mutex_' = c
    /\ qpc' = [qpc EXCEPT ![c] = IF PopMustWait THEN "pop_wait" ELSE "pop_check"]
    /\ UNCHANGED <<queue_, shutdown_, condition_, pushed, ret, popLog, ctlOps, qOther>>

\* condition_.wait(lock): releases the mutex and blocks, atomically
PopWait(c) ==
    /\ qpc[c] = "pop_wait"
    /\ mutex_' = "none"
    /\ condition_' = condition_ \cup {c}
    /\ qpc' = [qpc EXCEPT ![c] = "pop_lock"]
    /\ UNCHANGED <<queue_, shutdown_, pushed, ret, popLog, ctlOps, qOther>>

\* What front() hands back when the queue is empty: not an element that any
\* producer pushed.
Garbage == <<"none", 0>>

\* queue_.front() and queue_.pop() on an empty std::queue are undefined.  The
\* call reports success and hands back Garbage; the container is left looking
\* empty, or corrupted so that it looks non-empty and holds no pushed element.
\* (A build that aborts instead ends the whole process there and adds no
\* state.)
FrontOfEmpty(c, variant) ==
    /\ queue_ = <<>>
    /\ ret' = [ret EXCEPT ![c] = RetTrue(variant)]
    /\ popLog' = Append(popLog, Garbage)
    /\ queue_' \in {<<>>, <<Garbage>>}

\* item = std::move(queue_.front()); queue_.pop(); return true;
\* The element is taken from the front and the call returns it.
TakeFront(c, variant) ==
    \/ /\ queue_ # <<>>
       /\ ret' = [ret EXCEPT ![c] = RetTrue(variant)]
       /\ popLog' = Append(popLog, QueueFront(queue_))
       /\ queue_' = QueuePop(queue_)
    \/ FrontOfEmpty(c, variant)

\* the test after the loop, then front() / pop() and the return
PopCheck(c) ==
    /\ qpc[c] = "pop_check"
    /\ IF ShutdownAndEmpty
         THEN /\ ret' = [ret EXCEPT ![c] = RetFalse("pop")]
              /\ UNCHANGED <<queue_, popLog>>
         ELSE TakeFront(c, "pop")
    /\ mutex_' = "none"
    /\ qpc' = [qpc EXCEPT ![c] = "idle"]
    /\ UNCHANGED <<shutdown_, condition_, pushed, ctlOps, qOther>>

\* ---- bool pop(T&, timeout) ----

TimedPopCall(c) ==
    /\ qpc[c] = "idle"
    /\ qpc' = [qpc EXCEPT ![c] = "tpop_lock"]
    /\ ret' = [ret EXCEPT ![c] = RetPending("timed")]
    /\ UNCHANGED <<queue_, shutdown_, mutex_, condition_, pushed, popLog, ctlOps, qOther>>

\* unique_lock lock(mutex_) (also the re-acquisition after a notification),
\* followed by the predicate of wait_for:
\* while (!pred()) if (wait_until(...) == timeout) return pred();
TimedPopLock(c) ==
    /\ qpc[c] = "tpop_lock"
    /\ c \notin condition_
    /\ mutex_ = "none"
    /\ mutex_' = c
    /\ qpc' = [qpc EXCEPT ![c] = IF TimedPred THEN "tpop_check" ELSE "tpop_wait"]
    /\ UNCHANGED <<queue_, shutdown_, condition_, pushed, ret, popLog, ctlOps, qOther>>

TimedPopWait(c) ==
    /\ qpc[c] = "tpop_wait"
    /\ mutex_' = "none"
    /\ condition_' = condition_ \cup {c}
    /\ qpc' = [qpc EXCEPT ![c] = "tpop_lock"]
    /\ UNCHANGED <<queue_, shutdown_, pushed, ret, popLog, ctlOps, qOther>>

\* The deadline passes while the consumer is blocked.
TimedPopTimeout(c) ==
    /\ qpc[c] = "tpop_lock"
    /\ c \in condition_
    /\ condition_' = condition_ \ {c}
    /\ qpc' = [qpc EXCEPT ![c] = "tpop_expired"]
    /\ UNCHANGED <<queue_, shutdown_, mutex_, pushed, ret, popLog, ctlOps, qOther>>

\* After a timeout the mutex is re-acquired and wait_for returns pred().
TimedPopExpired(c) ==
    /\ qpc[c] = "tpop_expired"
    /\ mutex_ = "none"
    /\ IF TimedPred
         THEN /\ mutex_' = c
              /\ qpc' = [qpc EXCEPT ![c] = "tpop_check"]
              /\ ret' = ret
         ELSE /\ mutex_' = "none"
              /\ qpc' = [qpc EXCEPT ![c] = "idle"]
              /\ ret' = [ret EXCEPT ![c] = RetFalse("timed")]
    /\ UNCHANGED <<queue_, shutdown_, condition_, pushed, popLog, ctlOps, qOther>>

TimedPopCheck(c) ==
    /\ qpc[c] = "tpop_check"
    /\ IF ShutdownAndEmpty
         THEN /\ ret' = [ret EXCEPT ![c] = RetFalse("timed")]
              /\ UNCHANGED <<queue_, popLog>>
         ELSE TakeFront(c, "timed")
    /\ mutex_' = "none"
    /\ qpc' = [qpc EXCEPT ![c] = "idle"]
    /\ UNCHANGED <<shutdown_, condition_, pushed, ctlOps, qOther>>

\* ---- bool tryPop(T&) / shared_ptr<T> tryPop() ----

TryPop(c) ==
    /\ qpc[c] = "idle"
    /\ mutex_ = "none"
    /\ IF queue_ = <<>>
         THEN /\ ret' = [ret EXCEPT ![c] = RetFalse("try")]
              /\ UNCHANGED <<queue_, popLog>>
         ELSE TakeFront(c, "try")
    /\ UNCHANGED <<shutdown_, mutex_, condition_, qpc, pushed, ctlOps, qOther>>

\* A blocked consumer may wake without a notification (spurious wake-up).
SpuriousWake(c) ==
    /\ c \in condition_
    /\ condition_' = condition_ \ {c}
    /\ UNCHANGED <<queue_, shutdown_, mutex_, qpc, pushed, ret, popLog, ctlOps, qOther>>

\* ---- shutdown(), clear(), restart() ----

\* shutdown_.store(true)                    (no lock is held)
ShutdownStore ==
    /\ qpc[Controller] = "idle"
    /\ ctlOps < MaxCtl
    /\ shutdown_' = TRUE
    /\ ctlOps' = ctlOps + 1
    /\ qpc' = [qpc EXCEPT ![Controller] = "sd_notify"]
    /\ UNCHANGED <<queue_, mutex_, condition_, pushed, ret, popLog, qOther>>

\* condition_.notify_all()
ShutdownNotify ==
    /\ qpc[Controller] = "sd_notify"
    /\ condition_' = {}
    /\ qpc' = [qpc EXCEPT ![Controller] = "idle"]
    /\ UNCHANGED <<queue_, shutdown_, mutex_, pushed, ret, popLog, ctlOps, qOther>>

\* restart() that also empties the queue.
RestartAndClear ==
    /\ qpc[Controller] = "idle"
    /\ shutdown_' = FALSE
    /\ queue_' = <<>>
    /\ UNCHANGED <<mutex_, condition_, qpc, pushed, ret, popLog, ctlOps, qOther>>

\* restart(): shutdown_.store(false)        (no lock is held)
\* On a queue that is not shut down the store changes nothing.
Restart ==
    /\ qpc[Controller] = "idle"
    /\ shutdown_' = FALSE
    /\ UNCHANGED <<queue_, mutex_, condition_, qpc, pushed, ret, popLog, ctlOps, qOther>>

\* lock_guard; queue_.swap(empty)
Clear ==
    /\ qpc[Controller] = "idle"
    /\ ctlOps < MaxCtl
    /\ mutex_ = "none"
    /\ queue_' = <<>>
    /\ ctlOps' = ctlOps + 1
    /\ UNCHANGED <<shutdown_, mutex_, condition_, qpc, pushed, ret, popLog, qOther>>

QNext ==
    \/ \E p \in Producers : PushCheck(p) \/ PushLocked(p)
    \/ \E c \in Consumers : PopCall(c) \/ PopLock(c) \/ PopWait(c) \/ PopCheck(c)
    \/ \E c \in Consumers : TimedPopCall(c) \/ TimedPopLock(c) \/ TimedPopWait(c)
    \/ \E c \in Consumers : TimedPopTimeout(c) \/ TimedPopExpired(c) \/ TimedPopCheck(c)
    \/ \E c \in Consumers : TryPop(c) \/ SpuriousWake(c)
    \/ ShutdownStore \/ ShutdownNotify \/ Clear

\* The queue with restart() among the calls of the controlling thread.
QRNext == QNext \/ Restart

(***************************************************************************)
(* Part II.  FastFileSearchEngine: parallel crawl and instant search       *)
(***************************************************************************)

\* ---- the file system the engine crawls ----

\* Directories and files.  Documents and Desktop are the user directories of
\* the priority phase; both lie on drive C:.
FS == [
    C    |-> [name |-> "C:\\",      kind |-> "dir",  attrs |-> {},         children |-> <<"Docs", "Desk", "Win">>],
    Docs |-> [name |-> "Documents", kind |-> "dir",  attrs |-> {},         children |-> <<"a">>],
    Desk |-> [name |-> "Desktop",   kind |-> "dir",  attrs |-> {},         children |-> <<"b">>],
    Win  |-> [name |-> "Windows",   kind |-> "dir",  attrs |-> {},         children |-> <<"w">>],
    D    |-> [name |-> "D:\\",      kind |-> "dir",  attrs |-> {},         children |-> <<"d">>],
    a    |-> [name |-> "Ab",        kind |-> "file", attrs |-> {},         children |-> <<>>],
    b    |-> [name |-> "b",         kind |-> "file", attrs |-> {},         children |-> <<>>],
    w    |-> [name |-> "a",         kind |-> "file", attrs |-> {},         children |-> <<>>],
    d    |-> [name |-> "aB",        kind |-> "file", attrs |-> {"hidden"}, children |-> <<>>],
    dot    |-> [name |-> ".",  kind |-> "dir", attrs |-> {}, children |-> <<>>],
    dotdot |-> [name |-> "..", kind |-> "dir", attrs |-> {}, children |-> <<>>] ]

\* The drive roots GetLogicalDrives() reports (A: and B: are skipped).
Drives == <<"C", "D">>

\* What FindFirstFileExA / FindNextFileA enumerate in a directory: a drive
\* root has no "." and ".." entries, every other directory starts with them.
Entries(n) ==
    IF n \in {Drives[k] : k \in 1..Len(Drives)}
      THEN FS[n].children
      ELSE <<"dot", "dotdot">> \o FS[n].children

\* The characters of a file name (std::string contents).
Chars(name) ==
    CASE name = "Ab" -> <<"A", "b">>
      [] name = "aB" -> <<"a", "B">>
      [] name = "a"  -> <<"a">>
      [] name = "b"  -> <<"b">>
      [] OTHER -> <<>>

\* ::tolower on one character
ToLowerChar(ch) ==
    CASE ch = "A" -> "a"
      [] ch = "B" -> "b"
      [] OTHER -> ch

\* std::transform(s.begin(), s.end(), s.begin(), ::tolower)
ToLower(str) == [k \in 1..Len(str) |-> ToLowerChar(str[k])]

\* hay.find(needle) == 0: the needle is at the start of hay.
StartsWith(hay, needle) ==
    Len(needle) <= Len(hay) /\ \A j \in 1..Len(needle) : hay[j] = needle[j]

\* hay.find(needle) != std::string::npos
Contains(hay, needle) ==
    \E k \in 0..(Len(hay) - Len(needle)) :
        \A j \in 1..Len(needle) : hay[k + j] = needle[j]

\* A path is kept as the list of the strings that "\\" joins: the path the
\* walk started from, then one name per level.  Names hold no backslash, so
\* two lists are equal exactly when the joined strings are.

\* The user directories IndexUserDirectoriesParallel starts from, in order.
UserPaths == <<
    [path |-> <<"C:\\Documents">>, dir |-> "Docs"],
    [path |-> <<"C:\\Desktop">>,   dir |-> "Desk"] >>

\* The drive roots IndexAllDrivesParallel starts from.
DrivePaths == [k \in 1..Len(Drives) |-> [path |-> <<FS[Drives[k]].name>>, dir |-> Drives[k]]]

UserWorkers == {<<"user", k>> : k \in 1..Len(UserPaths)}
DriveWorkers == {<<"drive", k>> : k \in 1..Len(DrivePaths)}
Workers == UserWorkers \cup DriveWorkers

\* The directory a path string that starts a walk names.
StartDir(str) ==
    CASE str = "C:\\Documents" -> "Docs"
      [] str = "C:\\Desktop" -> "Desk"
      [] str = "C:\\" -> "C"
      [] str = "D:\\" -> "D"
      [] OTHER -> "none"

\* The child of directory n called name, or "none".
Child(n, name) ==
    IF \E k \in 1..Len(FS[n].children) : FS[FS[n].children[k]].name = name
      THEN FS[n].children[CHOOSE k \in 1..Len(FS[n].children) : FS[FS[n].children[k]].name = name]
      ELSE "none"

\* The file or directory a path names, or "none".
RECURSIVE Resolve(_, _)
Resolve(n, names) ==
    IF names = <<>> \/ n = "none" THEN n ELSE Resolve(Child(n, Head(names)), Tail(names))

NodeOf(path) == Resolve(StartDir(path[1]), Tail(path))

\* ---- IndexDirectoryOptimized ----

\* The directory test of lines 243-250: neither system nor hidden, and not
\* one of the six system roots.
Descend(e) ==
    /\ "system" \notin FS[e].attrs
    /\ "hidden" \notin FS[e].attrs
    /\ FS[e].name \notin {"System Volume Information", "$Recycle.Bin", "Windows",
                          "Program Files", "Program Files (x86)", "ProgramData"}

\* The FileInfo built for entry e met in the directory of path (lines 256-263).
NoInfo == [path |-> <<>>, name |-> "", lowerName |-> <<>>]
MakeFileInfo(path, e) ==
    [path |-> Append(path, FS[e].name),
     name |-> FS[e].name,
     lowerName |-> ToLower(Chars(FS[e].name))]

\* The frame of one activation of IndexDirectoryOptimized(path): the
\* directory it enumerates and the entry findData holds.
Frame(path, dir) == [path |-> path, dir |-> dir, i |-> 1]

Top(w) == worker[w].stack[Len(worker[w].stack)]

\* The activation on top returns (FindClose; return).  Its caller, if any,
\* goes on at its loop condition; the outermost return ends the thread.
Returned(w) ==
    LET rest == SubSeq(worker[w].stack, 1, Len(worker[w].stack) - 1)
    IN  IF rest = <<>>
          THEN [st |-> "done", pc |-> "done", stack |-> <<>>, info |-> NoInfo, currentCount |-> 0]
          ELSE [st |-> "running", pc |-> "next", stack |-> rest, info |-> NoInfo, currentCount |-> 0]

\* A thread created to run IndexDirectoryOptimized(start.path): FindFirstFileExA
\* fails on a directory without entries and the call returns at once.
Started(start) ==
    IF Entries(start.dir) = <<>>
      THEN [st |-> "done", pc |-> "done", stack |-> <<>>, info |-> NoInfo, currentCount |-> 0]
      ELSE [st |-> "running", pc |-> "top", stack |-> <<Frame(start.path, start.dir)>>, info |-> NoInfo, currentCount |-> 0]

Unborn == [st |-> "unborn", pc |-> "none", stack |-> <<>>, info |-> NoInfo, currentCount |-> 0]

EInit ==
    /\ m_fileIndex = <<>>
    /\ m_indexMutex = "none"
    /\ m_indexedFiles = 0
    /\ m_isIndexing = FALSE
    /\ m_shouldStop = FALSE
    /\ bg = [pc |-> "start", k |-> 1]
    /\ worker = [w \in Workers |-> Unborn]
    /\ ui = [pc |-> "ready", q |-> <<>>, i |-> 1, results |-> <<>>, snap |-> <<>>]
    /\ afterStop = [w \in Workers |-> 0]
    /\ lateStart = {}
    /\ statusLog = <<>>

\* m_shouldStop.load() in the crawl loop (lines 234 and 278) and in the two
\* loops that create the workers (lines 145 and 182).
NeverSeesStop == FALSE
WorkerSeesStop == m_shouldStop
SpawnerSeesStop == m_shouldStop

\* Top of the do-loop (lines 234-263): the stop test, then the entry in
\* findData is skipped, descended into, or made into a FileInfo.
WorkerEntry(w) ==
    /\ worker[w].st = "running" /\ worker[w].pc = "top"
    /\ LET f == Top(w)
           e == Entries(f.dir)[f.i]
           sub == Append(f.path, FS[e].name)
       IN  worker' = [worker EXCEPT ![w] =
               IF WorkerSeesStop THEN Returned(w)
               ELSE IF FS[e].name \in {".", ".."} THEN [@ EXCEPT !.pc = "next"]
               ELSE IF FS[e].kind = "dir"
                      THEN IF Descend(e) /\ Entries(e) # <<>>
                             THEN [@ EXCEPT !.stack = Append(@, Frame(sub, e))]
                             ELSE [@ EXCEPT !.pc = "next"]
               ELSE [@ EXCEPT !.pc = "append", !.info = MakeFileInfo(f.path, e)]]
    /\ UNCHANGED <<m_fileIndex, m_indexMutex, m_indexedFiles, m_isIndexing, m_shouldStop,
                   bg, ui, afterStop, lateStart, statusLog, eOther>>

\* lock_guard lock(m_indexMutex) can be taken.
AppendUnlocked == TRUE
AppendMayLock == m_indexMutex = "none"

\* { lock_guard lock(m_indexMutex); m_fileIndex.push_back(fileInfo); }
WorkerAppend(w) ==
    /\ worker[w].st = "running" /\ worker[w].pc = "append"
    /\ AppendMayLock
    /\ m_fileIndex' = Append(m_fileIndex, worker[w].info)
    /\ worker' = [worker EXCEPT ![w].pc = "count", ![w].info = NoInfo]
    /\ afterStop' = [afterStop EXCEPT ![w] = IF m_shouldStop THEN @ + 1 ELSE @]
    /\ UNCHANGED <<m_indexMutex, m_indexedFiles, m_isIndexing, m_shouldStop,
                   bg, ui, lateStart, statusLog, eOther>>

\* A progress status is due every ProgressEvery files.  The code's 2000
\* (line 273) is scaled down to the size of the file system crawled here.
ProgressEvery == 2

\* What fetch_add(1) returns, and the value line 270 makes of it
FetchedOnly(old) == old
FetchedPlusOne(old) == old + 1

\* A counter that is incremented before the record is appended.
WorkerCountEarly(w) ==
    /\ worker[w].st = "running" /\ worker[w].pc = "append"
    /\ m_indexedFiles' = m_indexedFiles + 1
    /\ UNCHANGED <<m_fileIndex, m_indexMutex, m_isIndexing, m_shouldStop, worker,
                   bg, ui, afterStop, lateStart, statusLog, eOther>>

\* size_t currentCount = m_indexedFiles.fetch_add(1) + 1;
WorkerCount(w) ==
    /\ worker[w].st = "running" /\ worker[w].pc = "count"
    /\ m_indexedFiles' = m_indexedFiles + 1
    /\ worker' = [worker EXCEPT ![w].pc = "status",
                                ![w].currentCount = FetchedPlusOne(m_indexedFiles)]
    /\ UNCHANGED <<m_fileIndex, m_indexMutex, m_isIndexing, m_shouldStop,
                   bg, ui, afterStop, lateStart, statusLog, eOther>>

\* if (currentCount % 2000 == 0) SetStatus(... currentCount ...);
WorkerStatus(w) ==
    /\ worker[w].st = "running" /\ worker[w].pc = "status"
    /\ statusLog' = IF worker[w].currentCount % ProgressEvery = 0
                      THEN Append(statusLog, worker[w].currentCount)
                      ELSE statusLog
    /\ worker' = [worker EXCEPT ![w].pc = "next", ![w].currentCount = 0]
    /\ UNCHANGED <<m_fileIndex, m_indexMutex, m_indexedFiles, m_isIndexing, m_shouldStop,
                   bg, ui, afterStop, lateStart, eOther>>

\* while (FindNextFileA(hFind, &findData) && !m_shouldStop.load());
WorkerNext(w) ==
    /\ worker[w].st = "running" /\ worker[w].pc = "next"
    /\ LET f == Top(w)
           n == Len(worker[w].stack)
       IN  worker' = [worker EXCEPT ![w] =
               IF f.i < Len(Entries(f.dir)) /\ ~WorkerSeesStop
                 THEN [@ EXCEPT !.pc = "top", !.stack[n].i = f.i + 1]
                 ELSE Returned(w)]
    /\ UNCHANGED <<m_fileIndex, m_indexMutex, m_indexedFiles, m_isIndexing, m_shouldStop,
                   bg, ui, afterStop, lateStart, statusLog, eOther>>

\* ---- BackgroundIndexingWorker ----

\* m_isIndexing.store(true)
BgBegin ==
    /\ bg.pc = "start"
    /\ m_isIndexing' = TRUE
    /\ bg' = [pc |-> "user_test", k |-> 1]
    /\ UNCHANGED <<m_fileIndex, m_indexMutex, m_indexedFiles, m_shouldStop,
                   worker, ui, afterStop, lateStart, statusLog, eOther>>

\* if (!path.empty() && !m_shouldStop.load())   (lines 145, 182)
SpawnTest(phase, paths, join) ==
    /\ bg.pc = phase \o "_test"
    /\ bg' = IF bg.k > Len(paths) THEN [pc |-> join, k |-> 1]
             ELSE IF paths[bg.k].path # <<>> /\ ~SpawnerSeesStop
                    THEN [bg EXCEPT !.pc = phase \o "_create"]
                    ELSE [bg EXCEPT !.k = @ + 1]
    /\ UNCHANGED <<m_fileIndex, m_indexMutex, m_indexedFiles, m_isIndexing, m_shouldStop,
                   worker, ui, afterStop, lateStart, statusLog, eOther>>

\* workers.emplace_back([...]() { IndexDirectoryOptimized(path); });
SpawnCreate(phase, paths) ==
    /\ bg.pc = phase \o "_create"
    /\ worker' = [worker EXCEPT ![<<phase, bg.k>>] = Started(paths[bg.k])]
    /\ lateStart' = IF m_shouldStop THEN lateStart \cup {<<phase, bg.k>>} ELSE lateStart
    /\ bg' = [pc |-> phase \o "_test", k |-> bg.k + 1]
    /\ UNCHANGED <<m_fileIndex, m_indexMutex, m_indexedFiles, m_isIndexing, m_shouldStop,
                   ui, afterStop, statusLog, eOther>>

\* worker.join() returns: the thread has ended (a thread never created is
\* not in the vector).
JoinSkipped(w) == TRUE
JoinReturns(w) == worker[w].st \in {"done", "unborn"}

\* for (auto& worker : workers) if (worker.joinable()) worker.join();
JoinWorkers(phase, paths, after) ==
    /\ bg.pc = phase \o "_join"
    /\ IF bg.k > Len(paths)
         THEN bg' = [pc |-> after, k |-> 1]
         ELSE /\ JoinReturns(<<phase, bg.k>>)
              /\ bg' = [bg EXCEPT !.k = @ + 1]
    /\ UNCHANGED <<m_fileIndex, m_indexMutex, m_indexedFiles, m_isIndexing, m_shouldStop,
                   worker, ui, afterStop, lateStart, statusLog, eOther>>

\* IndexUserDirectoriesParallel
UserSpawnTest == SpawnTest("user", UserPaths, "user_join")
UserSpawnCreate == SpawnCreate("user", UserPaths)
UserJoin == JoinWorkers("user", UserPaths, "drive_test")

\* IndexAllDrivesParallel
DriveSpawnTest == SpawnTest("drive", DrivePaths, "drive_join")
DriveSpawnCreate == SpawnCreate("drive", DrivePaths)
DriveJoin == JoinWorkers("drive", DrivePaths, "finish")

\* m_isIndexing.store(false)
BgEnd ==
    /\ bg.pc = "finish"
    /\ m_isIndexing' = FALSE
    /\ bg' = [pc |-> "done", k |-> 1]
    /\ UNCHANGED <<m_fileIndex, m_indexMutex, m_indexedFiles, m_shouldStop,
                   worker, ui, afterStop, lateStart, statusLog, eOther>>

\* ---- SearchInstant, called on the window thread ----

\* The texts typed into the search box.
Queries == {<<>>, <<"A", "B">>}

\* if (results.size() >= 100) break;
SearchLimit == 100

\* if (query.empty() || query.length() < 1) return results;  otherwise the
\* query is lowered and the index mutex is about to be taken.
SearchBegin(q) ==
    /\ ui.pc = "ready"
    /\ ui' = IF q = <<>>
               THEN [pc |-> "ready", q |-> q, i |-> 1, results |-> <<>>, snap |-> <<>>]
               ELSE [pc |-> "s_lock", q |-> ToLower(q), i |-> 1, results |-> <<>>, snap |-> <<>>]
    /\ UNCHANGED <<m_fileIndex, m_indexMutex, m_indexedFiles, m_isIndexing, m_shouldStop,
                   bg, worker, afterStop, lateStart, statusLog, eOther>>

\* std::lock_guard<std::mutex> lock(m_indexMutex);
SearchLock ==
    /\ ui.pc = "s_lock"
    /\ m_indexMutex = "none"
    /\ m_indexMutex' = "ui"
    /\ ui' = [ui EXCEPT !.pc = "s_scan", !.snap = m_fileIndex]
    /\ UNCHANGED <<m_fileIndex, m_indexedFiles, m_isIndexing, m_shouldStop,
                   bg, worker, afterStop, lateStart, statusLog, eOther>>

\* One turn of for (const auto& file : m_fileIndex), or its end.
SearchScan ==
    /\ ui.pc = "s_scan"
    /\ IF ui.i > Len(m_fileIndex)
         THEN ui' = [ui EXCEPT !.pc = "s_unlock"]
         ELSE LET file == m_fileIndex[ui.i]
                  hit == Contains(file.lowerName, ui.q)
                  res == IF hit THEN Append(ui.results, file.path) ELSE ui.results
              IN  ui' = [ui EXCEPT !.results = res,
                                   !.i = @ + 1,
                                   !.pc = IF hit /\ Len(res) >= SearchLimit THEN "s_unlock" ELSE "s_scan"]
    /\ UNCHANGED <<m_fileIndex, m_indexMutex, m_indexedFiles, m_isIndexing, m_shouldStop,
                   bg, worker, afterStop, lateStart, statusLog, eOther>>

\* The lock_guard's scope ends and the results are returned.
SearchUnlock ==
    /\ ui.pc = "s_unlock"
    /\ m_indexMutex' = "none"
    /\ ui' = [ui EXCEPT !.pc = "ready"]
    /\ UNCHANGED <<m_fileIndex, m_indexedFiles, m_isIndexing, m_shouldStop,
                   bg, worker, afterStop, lateStart, statusLog, eOther>>

\* ---- Shutdown ----

\* m_shouldStop.store(true);
ShutdownBegin ==
    /\ ui.pc = "ready"
    /\ m_shouldStop' = TRUE
    /\ ui' = [ui EXCEPT !.pc = "sd_join"]
    /\ UNCHANGED <<m_fileIndex, m_indexMutex, m_indexedFiles, m_isIndexing,
                   bg, worker, afterStop, lateStart, statusLog, eOther>>

\* m_backgroundIndexer.join() returns once the thread's function has returned
BgJoinSkipped == TRUE
BgJoinReturns == bg.pc = "done"

\* if (m_backgroundIndexer.joinable()) m_backgroundIndexer.join();
ShutdownJoin ==
    /\ ui.pc = "sd_join"
    /\ BgJoinReturns
    /\ ui' = [ui EXCEPT !.pc = "down"]
    /\ UNCHANGED <<m_fileIndex, m_indexMutex, m_indexedFiles, m_isIndexing, m_shouldStop,
                   bg, worker, afterStop, lateStart, statusLog, eOther>>

\* The destructor's Shutdown() after an explicit one: the flag is stored
\* again; the thread was joined, joinable() is false and the call returns.
ShutdownAgain ==
    /\ ui.pc = "down"
    /\ m_shouldStop' = TRUE
    /\ ui' = [ui EXCEPT !.pc = "destroyed"]
    /\ UNCHANGED <<m_fileIndex, m_indexMutex, m_indexedFiles, m_isIndexing,
                   bg, worker, afterStop, lateStart, statusLog, eOther>>

ENext ==
    \/ \E w \in Workers : WorkerEntry(w) \/ WorkerAppend(w) \/ WorkerCount(w) \/ WorkerStatus(w) \/ WorkerNext(w)
    \/ BgBegin \/ UserSpawnTest \/ UserSpawnCreate \/ UserJoin
    \/ DriveSpawnTest \/ DriveSpawnCreate \/ DriveJoin \/ BgEnd
    \/ \E q \in Queries : SearchBegin(q)
    \/ SearchLock \/ SearchScan \/ SearchUnlock
    \/ ShutdownBegin \/ ShutdownJoin \/ ShutdownAgain

(***************************************************************************)
(* Part III.  LRUCache<Key, Value>                                         *)
(*                                                                         *)
(* Every public member function runs under mutex_ from its first statement *)
(* to its return, so each call is one step.  A list node is               *)
(* [id, key, value, accessTime]; id stands for the node's address, which   *)
(* is what an iterator stored in hashMap_ designates.  steady_clock::now() *)
(* is the logical clock now_, advanced at every reading.                   *)
(***************************************************************************)

Keys == {"k1", "k2", "k3"}
Values == {"v1", "v2"}

\* Capacities passed to the constructor and to resize range over 0..MaxCap;
\* at most MaxOps member functions are called.
MaxCap == 3
MaxOps == 4

\* The cache's fields, as one value the private helpers work on.
CacheState == [list |-> nodeList_, map |-> hashMap_,
               size |-> currentSize_, evictions |-> evictionCount_, evicted |-> {}]

NoOp == [op |-> "none", key |-> "none", found |-> FALSE, evicted |-> {},
         arg |-> "none", ret |-> "none"]

\* The node an iterator designates: its position in the list.
PosOf(list, id) == CHOOSE i \in 1..Len(list) : list[i].id = id

\* nodeList_.erase(it): the node at the position goes
RemoveFirst(list, pos) == Tail(list)
RemoveAt(list, pos) == SubSeq(list, 1, pos - 1) \o SubSeq(list, pos + 1, Len(list))

\* moveToFront: splice the node to the front unless it is there already
NoMove(list, pos) == list
MoveToFront(list, pos) ==
    IF pos # 1 THEN <<list[pos]>> \o RemoveAt(list, pos) ELSE list

\* The node evictLRU removes: std::prev(nodeList_.end())
FrontPos(list) == 1
LastPos(list) == Len(list)

\* evictLRU
EvictLRU(c) ==
    IF c.list # <<>>
      THEN LET lastIt == LastPos(c.list)
               k == c.list[lastIt].key
           IN  [list |-> RemoveAt(c.list, lastIt),
                map |-> [x \in (DOMAIN c.map) \ {k} |-> c.map[x]],
                size |-> c.size - 1,
                evictions |-> c.evictions + 1,
                evicted |-> c.evicted \cup {k}]
      ELSE c

\* The test put makes before inserting a new entry
PutOverFull(size, cap) == size > cap
PutIsFull(size, cap) == size >= cap

\* The state the constructor LRUCache(capacity) leaves
LConstruct(capacity) ==
    /\ nodeList_ = <<>>
    /\ hashMap_ = <<>>
    /\ capacity_ = IF capacity = 0 THEN 1 ELSE capacity
    /\ currentSize_ = 0
    /\ hitCount_ = 0
    /\ missCount_ = 0
    /\ evictionCount_ = 0
    /\ now_ = 1
    /\ lruOps = 0
    /\ lastOp = NoOp
    /\ lastPut = [key \in Keys |-> "none"]

LInit == \E capacity \in 0..MaxCap : LConstruct(capacity)

CalledWith(op, key, found, evicted, arg, result) ==
    /\ lruOps' = lruOps + 1
    /\ lastOp' = [op |-> op, key |-> key, found |-> found, evicted |-> evicted,
                  arg |-> arg, ret |-> result]

Called(op, key, found, evicted) == CalledWith(op, key, found, evicted, "none", "none")

\* hashMap_.find(key) != hashMap_.end() in put
PutNeverFinds(key) == FALSE
PutFinds(key) == key \in DOMAIN hashMap_


\* void put(const Key&, const Value&)
Put(key, value) ==
    /\ lruOps < MaxOps
    /\ now_' = now_ + 1
    /\ lastPut' = [lastPut EXCEPT ![key] = value]
    /\ IF PutFinds(key)
         THEN LET pos == PosOf(nodeList_, hashMap_[key])
                  touched == [nodeList_ EXCEPT ![pos].value = value,
                                               ![pos].accessTime = now_]
              IN  /\ nodeList_' = MoveToFront(touched, pos)
                  /\ CalledWith("put", key, TRUE, {}, value, "none")
                  /\ UNCHANGED <<hashMap_, currentSize_, evictionCount_>>
         ELSE LET c == IF PutIsFull(currentSize_, capacity_)
                         THEN EvictLRU(CacheState) ELSE CacheState
                  node == [id |-> now_, key |-> key, value |-> value, accessTime |-> now_]
              IN  /\ nodeList_' = <<node>> \o c.list
                  /\ hashMap_' = [x \in (DOMAIN c.map) \cup {key} |->
                                     IF x = key THEN node.id ELSE c.map[x]]
                  /\ currentSize_' = c.size + 1
                  /\ evictionCount_' = c.evictions
                  /\ CalledWith("put", key, FALSE, c.evicted, value, "none")
    /\ UNCHANGED <<capacity_, hitCount_, missCount_, lOther>>

\* bool get(const Key&, Value&) const / shared_ptr<Value> get(const Key&) const
Get(key) ==
    /\ lruOps < MaxOps
    /\ IF key \in DOMAIN hashMap_
         THEN LET pos == PosOf(nodeList_, hashMap_[key])
                  touched == [nodeList_ EXCEPT ![pos].accessTime = now_]
              IN  /\ nodeList_' = MoveToFront(touched, pos)
                  /\ now_' = now_ + 1
                  /\ hitCount_' = hitCount_ + 1
                  /\ CalledWith("get", key, TRUE, {}, "none", nodeList_[pos].value)
                  /\ UNCHANGED missCount_
         ELSE /\ missCount_' = missCount_ + 1
              /\ Called("get", key, FALSE, {})
              /\ UNCHANGED <<nodeList_, now_, hitCount_>>
    /\ UNCHANGED <<hashMap_, capacity_, currentSize_, evictionCount_, lastPut, lOther>>

\* bool contains(const Key&) const
LruContains(key) ==
    /\ lruOps < MaxOps
    /\ Called("contains", key, key \in DOMAIN hashMap_, {})
    /\ UNCHANGED <<nodeList_, hashMap_, capacity_, currentSize_, hitCount_,
                   missCount_, evictionCount_, now_, lastPut, lOther>>

\* bool remove(const Key&)
Remove(key) ==
    /\ lruOps < MaxOps
    /\ IF key \in DOMAIN hashMap_
         THEN /\ nodeList_' = RemoveAt(nodeList_, PosOf(nodeList_, hashMap_[key]))
              /\ hashMap_' = [x \in (DOMAIN hashMap_) \ {key} |-> hashMap_[x]]
              /\ currentSize_' = currentSize_ - 1
              /\ Called("remove", key, TRUE, {})
         ELSE /\ Called("remove", key, FALSE, {})
              /\ UNCHANGED <<nodeList_, hashMap_, currentSize_>>
    /\ UNCHANGED <<capacity_, hitCount_, missCount_, evictionCount_, now_, lastPut, lOther>>

\* void clear()
LruClear ==
    /\ lruOps < MaxOps
    /\ nodeList_' = <<>>
    /\ hashMap_' = <<>>
    /\ currentSize_' = 0
    /\ Called("clear", "none", FALSE, {})
    /\ UNCHANGED <<capacity_, hitCount_, missCount_, evictionCount_, now_, lastPut, lOther>>

\* The loop of resize: while (currentSize_ > capacity_) evictLRU();
\* it does not terminate when the list is empty and currentSize_ still
\* exceeds the capacity; the model stops the loop there.
RECURSIVE ResizeLoop(_, _)
RECURSIVE ResizeLoopOneMore(_, _)
ResizeLoopOneMore(c, cap) ==
    IF c.size >= cap /\ c.list # <<>> THEN ResizeLoopOneMore(EvictLRU(c), cap) ELSE c
ResizeLoop(c, cap) ==
    IF c.size > cap /\ c.list # <<>> THEN ResizeLoop(EvictLRU(c), cap) ELSE c

\* void resize(size_t newCapacity)
Resize(newCapacity) ==
    /\ lruOps < MaxOps
    /\ LET cap == IF newCapacity > 1 THEN newCapacity ELSE 1
           c == ResizeLoop(CacheState, cap)
       IN  /\ capacity_' = cap
           /\ nodeList_' = c.list
           /\ hashMap_' = c.map
           /\ currentSize_' = c.size
           /\ evictionCount_' = c.evictions
           /\ CalledWith("resize", "none", FALSE, c.evicted, newCapacity, "none")
    /\ UNCHANGED <<hitCount_, missCount_, now_, lastPut, lOther>>

\* void resetStatistics()
ResetStatistics ==
    /\ lruOps < MaxOps
    /\ hitCount_' = 0
    /\ missCount_' = 0
    /\ evictionCount_' = 0
    /\ Called("resetStatistics", "none", FALSE, {})
    /\ UNCHANGED <<nodeList_, hashMap_, capacity_, currentSize_, now_, lastPut, lOther>>

\* total > 0 ? static_cast<double>(hitCount_) / total : 0.0, the quotient
\* being kept as the fraction n / d in lowest terms.
HitRatioOfMisses(hits, misses) ==
    LET total == hits + misses
        g == CHOOSE x \in 1..(total + 1) :
                 /\ misses % x = 0 /\ total % x = 0
                 /\ \A y \in (x + 1)..total : ~(misses % y = 0 /\ total % y = 0)
    IN IF total > 0 THEN [n |-> misses \div g, d |-> total \div g] ELSE [n |-> 0, d |-> 1]
HitRatio(hits, misses) ==
    LET total == hits + misses
        g == CHOOSE x \in 1..(total + 1) :
                 /\ hits % x = 0 /\ total % x = 0
                 /\ \A y \in (x + 1)..total : ~(hits % y = 0 /\ total % y = 0)
    IN IF total > 0 THEN [n |-> hits \div g, d |-> total \div g] ELSE [n |-> 0, d |-> 1]

\* double getHitRatio() const
GetHitRatio ==
    /\ lruOps < MaxOps
    /\ CalledWith("getHitRatio", "none", FALSE, {}, "none", HitRatio(hitCount_, missCount_))
    /\ UNCHANGED <<nodeList_, hashMap_, capacity_, currentSize_, hitCount_, missCount_,
                   evictionCount_, now_, lastPut, lOther>>

LNext ==
    \/ \E key \in Keys, value \in Values : Put(key, value)
    \/ \E key \in Keys : Get(key)
    \/ \E key \in Keys : LruContains(key)
    \/ \E key \in Keys : Remove(key)
    \/ LruClear
    \/ \E newCapacity \in 0..MaxCap : Resize(newCapacity)
    \/ ResetStatistics
    \/ GetHitRatio

(***************************************************************************)
(* Part IV.  SearchResults (src/core/types.cpp)                            *)
(*                                                                         *)
(* A SearchResult is [id, normalizedName, score]: the FileEntry's id and   *)
(* normalized name (a string, kept as its characters) and the score, a     *)
(* double, kept as a whole number of tenths.  std::sort is not stable:     *)
(* it may leave elements the comparator does not order in any order, so a  *)
(* sort step chooses among all the orders the comparator allows.           *)
(***************************************************************************)

\* At most MaxResults results are added and at most MaxSorts relevance
\* sorts are made.
MaxResults == 3
MaxSorts == 2

\* The results a search may add.
ResultPool == {
    [id |-> 1, normalizedName |-> <<"b">>,      score |-> 20],
    [id |-> 2, normalizedName |-> <<"a">>,      score |-> 20],
    [id |-> 3, normalizedName |-> <<"a", "b">>, score |-> 10],
    [id |-> 4, normalizedName |-> <<"a">>,      score |-> 30] }

CharCode(ch) == CASE ch = "a" -> 97 [] ch = "b" -> 98 [] OTHER -> 0

\* std::string operator< : lexicographic on the characters
RECURSIVE StrLess(_, _)
StrLess(s, t) ==
    IF t = <<>> THEN FALSE
    ELSE IF s = <<>> THEN TRUE
    ELSE IF CharCode(Head(s)) # CharCode(Head(t)) THEN CharCode(Head(s)) < CharCode(Head(t))
    ELSE StrLess(Tail(s), Tail(t))

\* The comparators handed to std::sort
ScoreThenName(a, b) ==
    a.score > b.score \/ (a.score = b.score /\ StrLess(a.normalizedName, b.normalizedName))
ByScore(a, b) == a.score > b.score
ByName(a, b) == StrLess(a.normalizedName, b.normalizedName)

OrdersOf(n) == {p \in [1..n -> 1..n] : \A i, j \in 1..n : p[i] = p[j] => i = j}

\* What std::sort(first, last, comp) may leave: the same elements, no
\* element ordered by comp before one that precedes it.
SortOutcomes(s, comp) ==
    {out \in {[i \in 1..Len(s) |-> s[p[i]]] : p \in OrdersOf(Len(s))} :
        \A i, j \in 1..Len(s) : i < j =>
            ~(IF comp = "score" THEN ByScore(out[j], out[i]) ELSE ByName(out[j], out[i]))}

RInit ==
    /\ results_ = <<>>
    /\ sortLog = <<>>

\* void addResult(const SearchResult&) / addResult(const FileEntry&, double)
AddResult(r) ==
    /\ Len(results_) < MaxResults
    /\ \A i \in 1..Len(results_) : results_[i].id # r.id
    /\ results_' = Append(results_, r)
    /\ UNCHANGED <<sortLog, rOther>>

\* void sortByScore()
SortByScore ==
    /\ Len(sortLog) < MaxSorts
    /\ results_' \in SortOutcomes(results_, "score")
    /\ sortLog' = Append(sortLog, [input |-> results_, output |-> results_'])
    /\ UNCHANGED rOther

\* void sortByName()
SortByName ==
    /\ results_' \in SortOutcomes(results_, "name")
    /\ UNCHANGED <<sortLog, rOther>>

RNext ==
    \/ \E r \in ResultPool : AddResult(r)
    \/ SortByScore
    \/ SortByName

(***************************************************************************)
(* Part V.  The loop body of the three directory walks                     *)
(*                                                                         *)
(* FastFileSearchEngine::IndexDirectoryOptimized (FastFileSearch.cpp),     *)
(* InstantSearchEngine::IndexDirectoryFast (instant_search_gui.cpp) and    *)
(* WindowsSearchEngine::IndexDirectory (windows_search_gui.cpp) share the  *)
(* shape of their do-loop: an entry is skipped, descended into, or         *)
(* indexed.  findData is the entry FindNextFile delivered; entryOutcome    *)
(* is what a walk did with it.                                             *)
(***************************************************************************)

EntryNames == {".", "..", "Windows", "Program Files", "Program Files (x86)",
               "ProgramData", "System Volume Information", "$Recycle.Bin", "src"}

FindData == [name : EntryNames, attrs : SUBSET {"hidden", "system"}, kind : {"dir", "file"}]

\* The directory test of IndexDirectoryFast (instant_search_gui.cpp:195-201)
DescendFast(d) ==
    /\ "system" \notin d.attrs
    /\ "hidden" \notin d.attrs
    /\ d.name \notin {"System Volume Information", "$Recycle.Bin", "Windows",
                      "Program Files", "Program Files (x86)"}

\* The directory test of IndexDirectory (windows_search_gui.cpp:251-253)
DescendWindows(d) ==
    /\ "system" \notin d.attrs
    /\ d.name \notin {"System Volume Information", "$Recycle.Bin"}

\* The directory test of IndexDirectoryOptimized (FastFileSearch.cpp:243-250)
DescendOptimized(d) ==
    /\ "system" \notin d.attrs
    /\ "hidden" \notin d.attrs
    /\ d.name \notin {"System Volume Information", "$Recycle.Bin", "Windows",
                      "Program Files", "Program Files (x86)", "ProgramData"}

\* One pass of the do-loop over findData, with the walk's directory test
EntryStep(descends) ==
    IF findData.name \in {".", ".."} THEN "skip"
    ELSE IF findData.kind = "dir" THEN (IF descends THEN "descend" ELSE "skip")
    ELSE "index"

\* FindFirstFile delivers "." first
FirstEntry == [name |-> ".", attrs |-> {}, kind |-> "dir"]
NoOutcome == [walk |-> "none", did |-> "none"]

WInit ==
    /\ findData = FirstEntry
    /\ entryOutcome = NoOutcome

\* FindNextFile delivers another entry
FindNextFile ==
    /\ entryOutcome.walk # "none"
    /\ findData' \in FindData
    /\ entryOutcome' = NoOutcome
    /\ UNCHANGED wOther

OptimizedEntry ==
    /\ entryOutcome.walk = "none"
    /\ entryOutcome' = [walk |-> "IndexDirectoryOptimized", did |-> EntryStep(DescendOptimized(findData))]
    /\ UNCHANGED <<findData, wOther>>

FastEntry ==
    /\ entryOutcome.walk = "none"
    /\ entryOutcome' = [walk |-> "IndexDirectoryFast", did |-> EntryStep(DescendFast(findData))]
    /\ UNCHANGED <<findData, wOther>>

WindowsEntry ==
    /\ entryOutcome.walk = "none"
    /\ entryOutcome' = [walk |-> "IndexDirectory", did |-> EntryStep(DescendWindows(findData))]
    /\ UNCHANGED <<findData, wOther>>

WNext == FindNextFile \/ OptimizedEntry \/ FastEntry \/ WindowsEntry

(***************************************************************************)
(* Part VI.  AppSettings, SearchQuery and FileEntry (src/core/types.cpp)   *)
(***************************************************************************)

\* ---- numbers ----

\* A double, kept in hundredths (60 is 0.6), or the value NaN.
Double(h) == [nan |-> FALSE, v |-> h]
NaN == [nan |-> TRUE, v |-> 0]

\* a < b on doubles: false when either side is NaN.
DoubleLess(a, b) == ~a.nan /\ ~b.nan /\ a.v < b.v

\* std::min(a, b) is (b < a) ? b : a and std::max(a, b) is (a < b) ? b : a.
StdMin(a, b) == IF b < a THEN b ELSE a
StdMax(a, b) == IF a < b THEN b ELSE a

\* fuzzyThreshold < 0.0 || fuzzyThreshold > 1.0
ThresholdOutOfRange(t) == DoubleLess(t, Double(0)) \/ DoubleLess(Double(100), t)

\* The values a double member is given.
DoubleInputs == {NaN} \cup {Double(h) : h \in {-1, 0, 60, 100, 101}}

\* ---- AppSettings ----

\* The values each member is given (they are public, and loaded from the
\* configuration file).  The integer members are uint32_t; the code only
\* compares them, so the values around the limits it compares with, and
\* one far above, stand for all.
SettingsInputs ==
    [indexingThreads |-> {0, 1, 2, 32, 33, 1000000},
     maxMemoryUsage |-> {63, 64, 8192, 8193},
     cacheSize |-> {0, 10, 8193},
     fuzzyThreshold |-> DoubleInputs,
     maxSearchResults |-> {0, 1, 100000, 100001}]

\* bool AppSettings::validate() const
Validate(s) ==
    IF s.indexingThreads = 0 \/ s.indexingThreads > 32 THEN FALSE
    ELSE IF s.maxMemoryUsage < 64 \/ s.maxMemoryUsage > 8192 THEN FALSE
    ELSE IF s.cacheSize > s.maxMemoryUsage THEN FALSE
    ELSE IF ThresholdOutOfRange(s.fuzzyThreshold) THEN FALSE
    ELSE IF s.maxSearchResults = 0 \/ s.maxSearchResults > 100000 THEN FALSE
    ELSE TRUE

\* sanitize() that clamps the cache size against the memory limit as given,
\* before that limit is clamped itself.
SanitizeCacheFirst(s) ==
    LET cache == StdMax(10, StdMin(s.maxMemoryUsage, s.cacheSize))
    IN [indexingThreads |-> StdMax(1, StdMin(32, s.indexingThreads)),
        maxMemoryUsage |-> StdMax(64, StdMin(8192, s.maxMemoryUsage)),
        cacheSize |-> cache,
        fuzzyThreshold |-> IF DoubleLess(Double(0), s.fuzzyThreshold)
                             /\ DoubleLess(s.fuzzyThreshold, Double(100))
                             THEN s.fuzzyThreshold
                             ELSE IF DoubleLess(s.fuzzyThreshold, Double(100))
                                    THEN Double(0) ELSE Double(100),
        maxSearchResults |-> StdMax(1, StdMin(100000, s.maxSearchResults))]

\* void AppSettings::sanitize(): the clamps, in the order of the code.
Sanitize(s) ==
    LET threads == StdMax(1, StdMin(32, s.indexingThreads))
        memory == StdMax(64, StdMin(8192, s.maxMemoryUsage))
        cache == StdMax(10, StdMin(memory, s.cacheSize))
        capped == IF DoubleLess(s.fuzzyThreshold, Double(100))
                    THEN s.fuzzyThreshold ELSE Double(100)
        threshold == IF DoubleLess(Double(0), capped) THEN capped ELSE Double(0)
        results == StdMax(1, StdMin(100000, s.maxSearchResults))
    IN [indexingThreads |-> threads, maxMemoryUsage |-> memory, cacheSize |-> cache,
        fuzzyThreshold |-> threshold, maxSearchResults |-> results]

\* A member is assigned.
AssignSettings ==
    /\ \E m \in DOMAIN SettingsInputs : \E v \in SettingsInputs[m] :
          appSettings' = [appSettings EXCEPT ![m] = v]
    /\ sanitized' = FALSE
    /\ defaultsFor' = -1
    /\ validated' = "none"
    /\ UNCHANGED sOther

SanitizeCall ==
    /\ appSettings' = Sanitize(appSettings)
    /\ sanitized' = TRUE
    /\ defaultsFor' = -1
    /\ validated' = "none"
    /\ UNCHANGED sOther

\* What std::thread::hardware_concurrency() may return: 0 when the number is
\* not computable, otherwise the number of hardware threads.
HardwareConcurrency == {0, 1, 2, 8, 32, 33, 64}

\* void AppSettings::setDefaults(), as to the five members that validate()
\* reads.
SetDefaults ==
    /\ \E hardware_concurrency \in HardwareConcurrency :
          /\ appSettings' = [indexingThreads |-> StdMax(2, hardware_concurrency),
                             maxMemoryUsage |-> 512,
                             cacheSize |-> 100,
                             fuzzyThreshold |-> Double(60),
                             maxSearchResults |-> 1000]
          /\ defaultsFor' = hardware_concurrency
    /\ sanitized' = FALSE
    /\ validated' = "none"
    /\ UNCHANGED sOther

ValidateCall ==
    /\ validated' = IF Validate(appSettings) THEN "true" ELSE "false"
    /\ UNCHANGED <<appSettings, sanitized, defaultsFor, sOther>>

SNext == AssignSettings \/ SanitizeCall \/ SetDefaults \/ ValidateCall

\* ---- SearchQuery ----

QueryInputs ==
    [query : Queries, maxResults : {0, 1, 2, 1000, 1000000}, fuzzyThreshold : DoubleInputs]

\* bool SearchQuery::isValid() const
IsValid(q) ==
    IF q.query = <<>> THEN FALSE
    ELSE IF q.maxResults = 0 THEN FALSE
    ELSE IF ThresholdOutOfRange(q.fuzzyThreshold) THEN FALSE
    ELSE TRUE

\* The members are assigned.
AssignQuery ==
    /\ searchQuery' \in QueryInputs
    /\ queryValid' = "none"
    /\ UNCHANGED kOther

\* isValid() is const: it reads the members and returns.
IsValidCall ==
    /\ queryValid' = IF IsValid(searchQuery) THEN "true" ELSE "false"
    /\ UNCHANGED <<searchQuery, kOther>>

KNext == AssignQuery \/ IsValidCall

\* ---- FileEntry ----

\* File names are at most MaxNameLen characters long.
MaxNameLen == 3

\* An upper-case letter, a lower-case letter, a digit, the four separators
\* and a character that is neither.
NameChars == {"A", "b", "7", ".", "_", "-", " ", "("}

FileNames == UNION {[1..n -> NameChars] : n \in 0..MaxNameLen}

\* std::isalnum(c)
IsAlnum(c) == c \in {"A", "B", "a", "b", "7"}

\* c == '.' || c == '_' || c == '-' || c == ' '
IsSeparator(c) == c \in {".", "_", "-", " "}

\* for (char c : fileName): an alphanumeric character is appended in lower
\* case, a separator appends a space, any other character appends nothing.
RECURSIVE Normalize(_)
Normalize(name) ==
    IF name = <<>> THEN <<>>
    ELSE (IF IsAlnum(Head(name)) THEN <<ToLowerChar(Head(name))>>
          ELSE IF IsSeparator(Head(name)) THEN <<" ">>
          ELSE <<>>) \o Normalize(Tail(name))

\* while (iss >> token) tokens.push_back(token): the maximal runs of
\* characters other than white space, token being the run read so far.
RECURSIVE SplitWords(_, _)
SplitWords(str, token) ==
    LET done == IF token = <<>> THEN <<>> ELSE <<token>>
    IN IF str = <<>> THEN done
       ELSE IF Head(str) = " " THEN done \o SplitWords(Tail(str), <<>>)
       ELSE SplitWords(Tail(str), Append(token, Head(str)))

\* fsPath.extension().string() with the leading dot removed: what follows the
\* last dot, unless that dot opens the name, the name has none, or it is "..".
Extension(name) ==
    LET dots == {k \in 1..Len(name) : name[k] = "."}
        lastDot == IF dots = {} THEN 0 ELSE CHOOSE k \in dots : \A j \in dots : j <= k
    IN IF lastDot <= 1 \/ name = <<".", ".">>
         THEN <<>>
         ELSE SubSeq(name, lastDot + 1, Len(name))

\* void FileEntry::updateTokens(), for a FileEntry with the given file name
\* and extension.
UpdateTokens(name, ext) ==
    IF name = <<>>
      THEN [fileName |-> name, extension |-> ext, normalizedName |-> <<>>, tokens |-> <<>>]
      ELSE [fileName |-> name, extension |-> ext,
            normalizedName |-> Normalize(name),
            tokens |-> SplitWords(Normalize(name), <<>>)
                         \o (IF ext # <<>> THEN <<ToLower(ext)>> ELSE <<>>)]

\* FileEntry::FileEntry(const std::string& path), for a path whose last
\* component is name.
FileEntryCtor(name) ==
    /\ fileEntry' = UpdateTokens(name, Extension(name))
    /\ UNCHANGED tOther

TNext == \E name \in FileNames : FileEntryCtor(name)


(***************************************************************************)
(* Part VII.  FileWatcher: the event processor and its coalescing          *)
(*                                                                         *)
(* file_watcher.h declares eventQueue_, recentEvents_,                     *)
(* eventCoalescingDelay_, eventProcessorLoop, isRecentEvent and            *)
(* markRecentEvent; the repository holds no definition of them.  The       *)
(* behaviour below is that of the specification, section 4.6: events for   *)
(* the same path received within the window collapse into the last event,  *)
(* and a create followed by a delete within the window cancel out.         *)
(***************************************************************************)

\* The watcher threads post at most MaxEvents events, and the clock is
\* followed for MaxClock ticks.
MaxEvents == 3
MaxClock == 2

\* eventCoalescingDelay_, in ticks of the clock.
CoalescingDelay == 1

WatchedPaths == {"a", "b"}
ChangeTypes == {"created", "modified", "deleted"}

FInit ==
    /\ eventQueue_ = <<>>
    /\ recentEvents_ = [p \in WatchedPaths |-> -1]
    /\ heldEvent = [p \in WatchedPaths |-> "none"]
    /\ dispatched = <<>>
    /\ steadyClock = 0
    /\ received = <<>>

\* bool isRecentEvent(path): the path's window is open.
IsRecentWithoutDelay(path) ==
    recentEvents_[path] # -1 /\ steadyClock - recentEvents_[path] < 0
IsRecentEvent(path) ==
    recentEvents_[path] # -1 /\ steadyClock - recentEvents_[path] < CoalescingDelay

\* What the window holds once an event of the given type joins it: the last
\* event, or nothing when a delete follows a create.
Collapse(held, type) ==
    IF held = "created" /\ type = "deleted" THEN "none" ELSE type

\* DriveWatcher::postEvent / FileWatcher::injectEvent
PostEvent(path, type) ==
    /\ Len(eventQueue_) + Len(received) < MaxEvents
    /\ eventQueue_' = Append(eventQueue_, [path |-> path, type |-> type])
    /\ UNCHANGED <<recentEvents_, heldEvent, dispatched, steadyClock, received, fOther>>

\* eventProcessorLoop takes the next event.  Inside the path's window the
\* event collapses with the one held; otherwise what an expired window still
\* holds is dispatched, and markRecentEvent opens a new window.
ProcessorReceive ==
    /\ eventQueue_ # <<>>
    /\ LET e == Head(eventQueue_)
       IN  /\ eventQueue_' = Tail(eventQueue_)
           /\ received' = Append(received, [path |-> e.path, type |-> e.type, at |-> steadyClock])
           /\ IF IsRecentEvent(e.path)
                THEN /\ heldEvent' = [heldEvent EXCEPT ![e.path] = Collapse(@, e.type)]
                     /\ UNCHANGED <<recentEvents_, dispatched>>
                ELSE /\ heldEvent' = [heldEvent EXCEPT ![e.path] = e.type]
                     /\ recentEvents_' = [recentEvents_ EXCEPT ![e.path] = steadyClock]
                     /\ dispatched' = IF heldEvent[e.path] = "none" THEN dispatched
                                      ELSE Append(dispatched, [path |-> e.path,
                                                               type |-> heldEvent[e.path]])
    /\ UNCHANGED <<steadyClock, fOther>>

\* The coalescer's timer: the window of a path has passed, and what it holds
\* is dispatched to the indexer.
WindowExpires(path) ==
    /\ recentEvents_[path] # -1
    /\ ~IsRecentEvent(path)
    /\ dispatched' = IF heldEvent[path] = "none" THEN dispatched
                     ELSE Append(dispatched, [path |-> path, type |-> heldEvent[path]])
    /\ heldEvent' = [heldEvent EXCEPT ![path] = "none"]
    /\ recentEvents_' = [recentEvents_ EXCEPT ![path] = -1]
    /\ UNCHANGED <<eventQueue_, steadyClock, received, fOther>>

ClockTick ==
    /\ steadyClock < MaxClock
    /\ steadyClock' = steadyClock + 1
    /\ UNCHANGED <<eventQueue_, recentEvents_, heldEvent, dispatched, received, fOther>>

FNext ==
    \/ \E path \in WatchedPaths, type \in ChangeTypes : PostEvent(path, type)
    \/ ProcessorReceive
    \/ \E path \in WatchedPaths : WindowExpires(path)
    \/ ClockTick


(***************************************************************************)
(* Part VIII.  MemoryIndex, InvertedIndex and the change events            *)
(*                                                                         *)
(* memory_index.h and index_manager.h declare addFile, updateFile,         *)
(* removeFileByPath, getFileByPath, removeFilesBatch, the two maps of      *)
(* InvertedIndex and processFileCreated .. processFileMoved; the           *)
(* repository holds no definition of them.  The writer below is that of    *)
(* the specification, sections 4.3 and 4.6: every change event is applied  *)
(* inside one critical section of the writer lock, a rename removes by the *)
(* old path and adds by the new path with the id it looked up, a delete    *)
(* removes the record and its descendants, update removes the prior        *)
(* postings and adds the new ones, and the totals are those of the live    *)
(* records whenever no writer is at work.  getFileCount() is defined in    *)
(* the header: it loads totalFiles_ and takes no lock.                     *)
(***************************************************************************)

\* At most MaxChanges change events are applied.
MaxChanges == 4

\* The directory /a, two files in it, and a file outside it.
IndexPaths == {<<"a">>, <<"a", "x">>, <<"a", "y">>, <<"b">>}
IsDirectoryPath(path) == path = <<"a">>
FilePaths == {path \in IndexPaths : ~IsDirectoryPath(path)}
TokenSets == {{"t1", "t2"}, {"t2", "t3"}}
IndexTokens == UNION TokenSets
FileIds == 1..MaxChanges
NoFile == [path |-> <<>>, tokens |-> {}]
NoTxn == [kind |-> "none", path |-> <<>>, newPath |-> <<>>, id |-> 0, doomed |-> {},
          doomedFiles |-> 0, filesBefore |-> 0]

\* path lies under the directory dir.
Under(path, dir) == Len(path) > Len(dir) /\ SubSeq(path, 1, Len(dir)) = dir

LiveIds == {id \in FileIds : files_[id] # NoFile}

\* The number of live records that are files: what total_files stands for.
LiveFileCount(files) ==
    Cardinality({id \in FileIds : files[id] # NoFile /\ ~IsDirectoryPath(files[id].path)})

MInit ==
    /\ files_ = [id \in FileIds |-> NoFile]
    /\ pathToId_ = [path \in IndexPaths |-> 0]
    /\ tokenToFiles_ = [t \in IndexTokens |-> {}]
    /\ fileToTokens_ = [id \in FileIds |-> {}]
    /\ totalFiles_ = 0
    /\ nextFileId_ = 1
    /\ indexLock = [writer |-> FALSE, readers |-> 0]
    /\ todo = <<>>
    /\ txn = NoTxn
    /\ changes = 0
    /\ reader = [pc |-> "idle", p |-> <<>>, q |-> <<>>, seen |-> <<>>]
    /\ countSeen = [count |-> 0, during |-> 0]

\* One mutation of the maps.
Mutation(op, id, path, tokens) == [op |-> op, id |-> id, path |-> path, tokens |-> tokens]

RECURSIVE RemoveAll(_)
\* removeFilesBatch: one removal for each id of the set, in ascending order.
RemoveAll(ids) ==
    IF ids = {} THEN <<>>
    ELSE LET id == CHOOSE i \in ids : \A j \in ids : i <= j
         IN  <<Mutation("remove", id, <<>>, {})>> \o RemoveAll(ids \ {id})

\* InvertedIndex::removeDocument: every posting of the id goes.
RemoveDocument(t2f, id) == [t \in IndexTokens |-> t2f[t] \ {id}]

\* InvertedIndex::addDocument
AddDocument(t2f, id, tokens) ==
    [t \in IndexTokens |-> IF t \in tokens THEN t2f[t] \cup {id} ELSE t2f[t]]

\* InvertedIndex::updateDocument: remove all prior (token, id) pairs, then
\* add the new ones.
UpdateOnlyAdds(t2f, id, tokens) == AddDocument(t2f, id, tokens)
UpdateDocument(t2f, id, tokens) == AddDocument(RemoveDocument(t2f, id), id, tokens)

\* What a mutation inside the critical section does to totalFiles_: nothing;
\* the total is stored once, when the writer commits.
TotalPerRecord(total, mut) ==
    IF mut.op = "remove" /\ files_[mut.id] # NoFile /\ ~IsDirectoryPath(files_[mut.id].path)
      THEN total - 1
      ELSE IF mut.op = "add" /\ ~IsDirectoryPath(mut.path) THEN total + 1 ELSE total
TotalWhileWriting(total, mut) == total

\* The shared lock is granted while no writer holds the lock.
SharedAlways == TRUE
SharedLockFree == ~indexLock.writer

\* The writer takes the lock for a change event, looks up what the event
\* names and lays out its mutations.
WriterBegin(kind, path, newPath, tokens) ==
    /\ changes < MaxChanges
    /\ ~indexLock.writer
    /\ indexLock.readers = 0
    /\ LET id == pathToId_[path]
           doomed == {i \in LiveIds : files_[i].path = path \/ Under(files_[i].path, path)}
       IN  /\ CASE kind = "created"  -> pathToId_[path] = 0 /\ nextFileId_ \in FileIds
                [] kind = "modified" -> id # 0
                [] kind = "deleted"  -> TRUE
                [] kind = "renamed"  -> /\ id # 0
                                        /\ path \in FilePaths /\ newPath \in FilePaths
                                        /\ pathToId_[newPath] = 0
           /\ todo' = CASE kind = "created"  -> <<Mutation("add", nextFileId_, path, tokens)>>
                        [] kind = "modified" -> <<Mutation("update", id, path, tokens)>>
                        [] kind = "deleted"  -> RemoveAll(doomed)
                        [] kind = "renamed"  -> <<Mutation("remove", id, <<>>, {}),
                                                  Mutation("add", id, newPath, tokens)>>
           /\ txn' = [kind |-> kind, path |-> path, newPath |-> newPath, id |-> id,
                      doomed |-> IF kind = "deleted" THEN doomed ELSE {},
                      doomedFiles |-> IF kind = "deleted"
                                        THEN Cardinality({i \in doomed :
                                                 ~IsDirectoryPath(files_[i].path)})
                                        ELSE 0,
                      filesBefore |-> LiveFileCount(files_)]
           /\ nextFileId_' = IF kind = "created" THEN nextFileId_ + 1 ELSE nextFileId_
    /\ indexLock' = [indexLock EXCEPT !.writer = TRUE]
    /\ changes' = changes + 1
    /\ UNCHANGED <<files_, pathToId_, tokenToFiles_, fileToTokens_, totalFiles_, reader,
                   countSeen, mOther>>

\* The writer makes its next mutation: addFile, updateFile or removeFile on
\* files_, pathToId_ and the inverted index.
WriterStep ==
    /\ indexLock.writer
    /\ todo # <<>>
    /\ LET mut == Head(todo)
       IN  /\ todo' = Tail(todo)
           /\ totalFiles_' = TotalWhileWriting(totalFiles_, mut)
           /\ CASE mut.op = "add" ->
                     /\ files_' = [files_ EXCEPT ![mut.id] = [path |-> mut.path,
                                                               tokens |-> mut.tokens]]
                     /\ pathToId_' = [pathToId_ EXCEPT ![mut.path] = mut.id]
                     /\ tokenToFiles_' = AddDocument(tokenToFiles_, mut.id, mut.tokens)
                     /\ fileToTokens_' = [fileToTokens_ EXCEPT ![mut.id] = mut.tokens]
                [] mut.op = "update" ->
                     /\ files_' = [files_ EXCEPT ![mut.id].tokens = mut.tokens]
                     /\ tokenToFiles_' = UpdateDocument(tokenToFiles_, mut.id, mut.tokens)
                     /\ fileToTokens_' = [fileToTokens_ EXCEPT ![mut.id] = mut.tokens]
                     /\ UNCHANGED pathToId_
                [] mut.op = "remove" ->
                     /\ files_' = [files_ EXCEPT ![mut.id] = NoFile]
                     /\ pathToId_' = [pathToId_ EXCEPT ![files_[mut.id].path] = 0]
                     /\ tokenToFiles_' = RemoveDocument(tokenToFiles_, mut.id)
                     /\ fileToTokens_' = [fileToTokens_ EXCEPT ![mut.id] = {}]
    /\ UNCHANGED <<nextFileId_, indexLock, txn, changes, reader, countSeen, mOther>>

\* The writer has made every mutation: it stores the total of the live
\* files and releases the lock.
WriterCommit ==
    /\ indexLock.writer
    /\ todo = <<>>
    /\ totalFiles_' = LiveFileCount(files_)
    /\ indexLock' = [indexLock EXCEPT !.writer = FALSE]
    /\ UNCHANGED <<files_, pathToId_, tokenToFiles_, fileToTokens_, nextFileId_, todo, txn,
                   changes, reader, countSeen, mOther>>

\* A reader takes the shared lock and looks up the path p: getFileByPath.
ReaderBegin(p, q) ==
    /\ reader.pc = "idle"
    /\ SharedLockFree
    /\ indexLock' = [indexLock EXCEPT !.readers = 1]
    /\ reader' = [pc |-> "reading", p |-> p, q |-> q, seen |-> <<pathToId_[p]>>]
    /\ UNCHANGED <<files_, pathToId_, tokenToFiles_, fileToTokens_, totalFiles_,
                   nextFileId_, todo, txn, changes, countSeen, mOther>>

\* Still holding the shared lock, the reader looks up the path q.
ReaderRead ==
    /\ reader.pc = "reading"
    /\ reader' = [reader EXCEPT !.pc = "done", !.seen = Append(@, pathToId_[reader.q])]
    /\ UNCHANGED <<files_, pathToId_, tokenToFiles_, fileToTokens_, totalFiles_,
                   nextFileId_, indexLock, todo, txn, changes, countSeen, mOther>>

\* The reader releases the shared lock.
ReaderEnd ==
    /\ reader.pc = "done"
    /\ indexLock' = [indexLock EXCEPT !.readers = 0]
    /\ reader' = [pc |-> "idle", p |-> <<>>, q |-> <<>>, seen |-> <<>>]
    /\ UNCHANGED <<files_, pathToId_, tokenToFiles_, fileToTokens_, totalFiles_,
                   nextFileId_, todo, txn, changes, countSeen, mOther>>

\* size_t getFileCount() const { return totalFiles_.load(); }
GetFileCount ==
    /\ countSeen' = [count |-> totalFiles_,
                     during |-> IF indexLock.writer THEN changes ELSE 0]
    /\ UNCHANGED <<files_, pathToId_, tokenToFiles_, fileToTokens_, totalFiles_,
                   nextFileId_, indexLock, todo, txn, changes, reader, mOther>>

MNext ==
    \/ \E path \in IndexPaths, tokens \in TokenSets : WriterBegin("created", path, <<>>, tokens)
    \/ \E path \in IndexPaths, tokens \in TokenSets : WriterBegin("modified", path, <<>>, tokens)
    \/ \E path \in IndexPaths : WriterBegin("deleted", path, <<>>, {})
    \/ \E path, newPath \in IndexPaths, tokens \in TokenSets :
           WriterBegin("renamed", path, newPath, tokens)
    \/ WriterStep
    \/ WriterCommit
    \/ \E p, q \in FilePaths : p # q /\ ReaderBegin(p, q)
    \/ ReaderRead
    \/ ReaderEnd
    \/ GetFileCount


(***************************************************************************)
(* Part IX.  ProgressiveIndexer: the loading state of directory nodes      *)
(*                                                                         *)
(* progressive_indexer.h defines enum LoadingState and declares            *)
(* loadingQueue_, currentlyLoading_, loadDirectoryAsync, workerThread and  *)
(* evictOldEntries; the repository holds no definition of them.  The       *)
(* behaviour below is that of the specification, section 4.5: load(path)   *)
(* marks the node loading and enqueues it to the worker pool, a worker     *)
(* ends the load with loaded or error, and the cache's eviction of a node  *)
(* reverts it to not_loaded.                                               *)
(***************************************************************************)

\* At most MaxLoads load calls and MaxEvictions evictions are made.
MaxLoads == 4
MaxEvictions == 2

\* explicit ProgressiveIndexer(size_t maxThreads = 2)
MaxThreads == 2

LoaderThreads == 1..MaxThreads
Directories == {"d1", "d2"}

\* enum class LoadingState { NotLoaded, Loading, Loaded, Error }
LoadingState == {"NotLoaded", "Loading", "Loaded", "Error"}

PInit ==
    /\ nodeState = [d \in Directories |-> "NotLoaded"]
    /\ loadingQueue_ = <<>>
    /\ currentlyLoading_ = {}
    /\ loading = [w \in LoaderThreads |-> "none"]
    /\ loadCalls = [d \in Directories |-> 0]
    /\ evictions = 0

\* bool DirectoryNode::needsLoading(): load(path) starts a load of a node that
\* is not loaded and that no worker has in hand.
NeedsLoadingOrLoading(path) == nodeState[path] \in {"NotLoaded", "Loading"}
NeedsLoading(path) == nodeState[path] = "NotLoaded" /\ path \notin currentlyLoading_

\* bool loadDirectoryAsync(path): marks the node loading and enqueues it;
\* does nothing for a node that is loading, loaded or in error.
LoadDirectoryAsync(path) ==
    /\ loadCalls[path] < MaxLoads
    /\ loadCalls' = [loadCalls EXCEPT ![path] = @ + 1]
    /\ IF NeedsLoading(path)
         THEN /\ nodeState' = [nodeState EXCEPT ![path] = "Loading"]
              /\ currentlyLoading_' = currentlyLoading_ \cup {path}
              /\ loadingQueue_' = Append(loadingQueue_, path)
         ELSE UNCHANGED <<nodeState, currentlyLoading_, loadingQueue_>>
    /\ UNCHANGED <<loading, evictions, pOther>>

\* workerThread takes the next node of the queue.
WorkerTakes(w) ==
    /\ loading[w] = "none"
    /\ loadingQueue_ # <<>>
    /\ loading' = [loading EXCEPT ![w] = Head(loadingQueue_)]
    /\ loadingQueue_' = Tail(loadingQueue_)
    /\ UNCHANGED <<nodeState, currentlyLoading_, loadCalls, evictions, pOther>>

\* loadDirectoryInternal has returned (success) or thrown (handleLoadingError).
WorkerFinishes(w, success) ==
    /\ loading[w] # "none"
    /\ nodeState' = [nodeState EXCEPT ![loading[w]] = IF success THEN "Loaded" ELSE "Error"]
    /\ currentlyLoading_' = currentlyLoading_ \ {loading[w]}
    /\ loading' = [loading EXCEPT ![w] = "none"]
    /\ UNCHANGED <<loadingQueue_, loadCalls, evictions, pOther>>

\* evictOldEntries / removeFromCache: a node the cache holds, one whose load
\* has ended, goes back to not loaded.
EvictNode(path) ==
    /\ evictions < MaxEvictions
    /\ nodeState[path] \in {"Loaded", "Error"}
    /\ nodeState' = [nodeState EXCEPT ![path] = "NotLoaded"]
    /\ evictions' = evictions + 1
    /\ UNCHANGED <<loadingQueue_, currentlyLoading_, loading, loadCalls, pOther>>

PNext ==
    \/ \E path \in Directories : LoadDirectoryAsync(path)
    \/ \E w \in LoaderThreads : WorkerTakes(w)
    \/ \E w \in LoaderThreads, success \in BOOLEAN : WorkerFinishes(w, success)
    \/ \E path \in Directories : EvictNode(path)


(***************************************************************************)
(* Part X.  Logger: log(), the worker thread and the destructor            *)
(***************************************************************************)

\* At most MaxLogs calls of log() and MaxLevelSets calls of setLogLevel().
MaxLogs == 3
MaxLevelSets == 1

\* enum class Level: DEBUG = 0, INFO = 1, WARNING = 2, ERROR = 3, FATAL = 4
LogLevels == {0, 1, 3}
NoEntry == [level |-> -1, n |-> 0]

\* Logger::Logger(): level INFO, and the worker thread is started.
GInit ==
    /\ logLevel_ = 1
    /\ logQueue_ = <<>>
    /\ logMutex = "none"
    /\ cvWaiting = FALSE
    /\ stopLogging_ = FALSE
    /\ logpc = [main |-> "run", worker |-> "w_test", logs |-> 0, sets |-> 0]
    /\ inHand = NoEntry
    /\ written = <<>>
    /\ accepted = <<>>

\* The predicate of the worker's wait.
WaitPred == logQueue_ # <<>> \/ stopLogging_

\* void Logger::setLogLevel(Level level)
SetLogLevel(level) ==
    /\ logpc.main = "run"
    /\ logpc.sets < MaxLevelSets
    /\ level # logLevel_
    /\ logLevel_' = level
    /\ logpc' = [logpc EXCEPT !.sets = @ + 1]
    /\ UNCHANGED <<logQueue_, logMutex, cvWaiting, stopLogging_, inHand, written, accepted,
                   gOther>>

\* log(level, message) up to the end of the lock_guard's scope: an entry
\* below the threshold is dropped, any other is queued under the mutex.
LogPush(level) ==
    /\ logpc.main = "run"
    /\ logpc.logs < MaxLogs
    /\ IF level < logLevel_
         THEN /\ logpc' = [logpc EXCEPT !.logs = @ + 1]
              /\ UNCHANGED <<logQueue_, accepted>>
         ELSE /\ logMutex = "none"
              /\ logQueue_' = Append(logQueue_, [level |-> level, n |-> logpc.logs + 1])
              /\ accepted' = Append(accepted, [level |-> level, n |-> logpc.logs + 1])
              /\ logpc' = [logpc EXCEPT !.logs = @ + 1, !.main = "notify"]
    /\ UNCHANGED <<logLevel_, logMutex, cvWaiting, stopLogging_, inHand, written, gOther>>

\* cv_.notify_one();
LogNotify ==
    /\ logpc.main = "notify"
    /\ cvWaiting' = FALSE
    /\ logpc' = [logpc EXCEPT !.main = "run"]
    /\ UNCHANGED <<logLevel_, logQueue_, logMutex, stopLogging_, inHand, written, accepted,
                   gOther>>

\* ~Logger: stopLogging_.store(true);           (no lock is held)
DtorStore ==
    /\ logpc.main = "run"
    /\ stopLogging_' = TRUE
    /\ logpc' = [logpc EXCEPT !.main = "d_notify"]
    /\ UNCHANGED <<logLevel_, logQueue_, logMutex, cvWaiting, inHand, written, accepted,
                   gOther>>

\* ~Logger: cv_.notify_all();
DtorNotify ==
    /\ logpc.main = "d_notify"
    /\ cvWaiting' = FALSE
    /\ logpc' = [logpc EXCEPT !.main = "d_join"]
    /\ UNCHANGED <<logLevel_, logQueue_, logMutex, stopLogging_, inHand, written, accepted,
                   gOther>>

\* ~Logger: logThread_.join() returns once the worker has left logWorker.
DtorJoin ==
    /\ logpc.main = "d_join"
    /\ logpc.worker = "exited"
    /\ logpc' = [logpc EXCEPT !.main = "destroyed"]
    /\ UNCHANGED <<logLevel_, logQueue_, logMutex, cvWaiting, stopLogging_, inHand, written,
                   accepted, gOther>>

\* logWorker: while (!stopLogging_.load())
WorkerTest ==
    /\ logpc.worker = "w_test"
    /\ logpc' = [logpc EXCEPT !.worker = IF stopLogging_ THEN "w_final" ELSE "w_lock"]
    /\ UNCHANGED <<logLevel_, logQueue_, logMutex, cvWaiting, stopLogging_, inHand, written,
                   accepted, gOther>>

\* unique_lock lock(mutex_), or the re-acquisition when the wait is over,
\* followed by the predicate of cv_.wait(lock, pred).
WorkerLock ==
    /\ logpc.worker = "w_lock"
    /\ ~cvWaiting
    /\ logMutex = "none"
    /\ logMutex' = "worker"
    /\ logpc' = [logpc EXCEPT !.worker = IF WaitPred THEN "w_drain" ELSE "w_wait"]
    /\ UNCHANGED <<logLevel_, logQueue_, cvWaiting, stopLogging_, inHand, written, accepted,
                   gOther>>

\* cv_.wait(lock): releases the mutex and blocks, atomically.
WorkerWait ==
    /\ logpc.worker = "w_wait"
    /\ logMutex' = "none"
    /\ cvWaiting' = TRUE
    /\ logpc' = [logpc EXCEPT !.worker = "w_lock"]
    /\ UNCHANGED <<logLevel_, logQueue_, stopLogging_, inHand, written, accepted, gOther>>

\* The blocked worker may wake without a notification.
WorkerSpuriousWake ==
    /\ cvWaiting
    /\ cvWaiting' = FALSE
    /\ UNCHANGED <<logLevel_, logQueue_, logMutex, stopLogging_, logpc, inHand, written,
                   accepted, gOther>>

\* while (!logQueue_.empty()) { entry = front(); pop(); lock.unlock(); ...
\* and, when the queue is empty, the end of the outer loop's body, where the
\* unique_lock is destroyed.
WorkerDrain ==
    /\ logpc.worker = "w_drain"
    /\ IF logQueue_ = <<>>
         THEN /\ logpc' = [logpc EXCEPT !.worker = "w_test"]
              /\ UNCHANGED <<logQueue_, inHand>>
         ELSE /\ inHand' = Head(logQueue_)
              /\ logQueue_' = Tail(logQueue_)
              /\ logpc' = [logpc EXCEPT !.worker = "w_write"]
    /\ logMutex' = "none"
    /\ UNCHANGED <<logLevel_, cvWaiting, stopLogging_, written, accepted, gOther>>

\* writeLogEntry(entry), with the mutex released.
WorkerWrite ==
    /\ logpc.worker = "w_write"
    /\ written' = Append(written, inHand)
    /\ inHand' = NoEntry
    /\ logpc' = [logpc EXCEPT !.worker = "w_relock"]
    /\ UNCHANGED <<logLevel_, logQueue_, logMutex, cvWaiting, stopLogging_, accepted, gOther>>

\* lock.lock();
WorkerRelock ==
    /\ logpc.worker = "w_relock"
    /\ logMutex = "none"
    /\ logMutex' = "worker"
    /\ logpc' = [logpc EXCEPT !.worker = "w_drain"]
    /\ UNCHANGED <<logLevel_, logQueue_, cvWaiting, stopLogging_, inHand, written, accepted,
                   gOther>>

\* After the loop: lock_guard; every entry left is written; the thread ends.
WorkerFinal ==
    /\ logpc.worker = "w_final"
    /\ logMutex = "none"
    /\ written' = written \o logQueue_
    /\ logQueue_' = <<>>
    /\ logpc' = [logpc EXCEPT !.worker = "exited"]
    /\ UNCHANGED <<logLevel_, logMutex, cvWaiting, stopLogging_, inHand, accepted, gOther>>

GNext ==
    \/ \E level \in LogLevels : SetLogLevel(level) \/ LogPush(level)
    \/ LogNotify
    \/ DtorStore \/ DtorNotify \/ DtorJoin
    \/ WorkerTest \/ WorkerLock \/ WorkerWait \/ WorkerSpuriousWake
    \/ WorkerDrain \/ WorkerWrite \/ WorkerRelock \/ WorkerFinal

\* Scheduling: both threads keep running, and a thread that finds the mutex
\* free again and again gets it.  A spurious wake-up is never forced.
LoggerFairness ==
    /\ WF_vars(LogNotify) /\ WF_vars(DtorNotify) /\ WF_vars(DtorJoin)
    /\ WF_vars(WorkerTest) /\ WF_vars(WorkerWait) /\ WF_vars(WorkerDrain)
    /\ WF_vars(WorkerWrite)
    /\ SF_vars(WorkerLock) /\ SF_vars(WorkerRelock) /\ SF_vars(WorkerFinal)

\* The member initializers of struct AppSettings and struct SearchQuery, and
\* a default-constructed FileEntry.
XInit ==
    /\ appSettings = [indexingThreads |-> 4, maxMemoryUsage |-> 512, cacheSize |-> 100,
                      fuzzyThreshold |-> Double(60), maxSearchResults |-> 1000]
    /\ sanitized = FALSE
    /\ defaultsFor = -1
    /\ validated = "none"
    /\ searchQuery = [query |-> <<>>, maxResults |-> 1000, fuzzyThreshold |-> Double(60)]
    /\ queryValid = "none"
    /\ fileEntry = [fileName |-> <<>>, extension |-> <<>>, normalizedName |-> <<>>,
                    tokens |-> <<>>]
    /\ FInit
    /\ MInit
    /\ PInit
    /\ GInit

\* The objects after construction; the cache is built with capacity
\* MaxCap, and LruInit lets the constructor's argument range over 0..MaxCap.
Init == QInit /\ EInit /\ LConstruct(MaxCap) /\ RInit /\ WInit /\ XInit

LruInit == QInit /\ EInit /\ LInit /\ RInit /\ WInit /\ XInit

\* An index of up to MaxRecords records, more than SearchInstant returns.
MaxRecords == 102

\* m_fileIndex with n records, in the order of insertion.  The name of a
\* record holds the letters "ab" in some case after another letter, except
\* for the records at the skipped positions; its path ends in its position.
IndexOf(n, skipped) ==
    [k \in 1..n |->
        LET name == IF k \in skipped THEN <<"b">>
                    ELSE IF k % 2 = 0 THEN <<"b", "A", "b">> ELSE <<"b", "a", "B">>
        IN [path |-> <<"C:\\", name, k>>, name |-> name, lowerName |-> ToLower(name)]]

\* The engine after a crawl that indexed such a directory tree: the
\* background thread is done, and only SearchInstant is called.
SearchInit ==
    /\ QInit /\ LConstruct(MaxCap) /\ RInit /\ WInit /\ XInit
    /\ \E n \in 0..MaxRecords :
          \E skipped \in {{}, {1}, {2, 50}, 1..MaxRecords} :
              /\ m_fileIndex = IndexOf(n, skipped)
              /\ m_indexedFiles = n
    /\ m_indexMutex = "none"
    /\ m_isIndexing = FALSE
    /\ m_shouldStop = FALSE
    /\ bg = [pc |-> "done", k |-> 1]
    /\ worker = [w \in Workers |-> Unborn]
    /\ ui = [pc |-> "ready", q |-> <<>>, i |-> 1, results |-> <<>>, snap |-> <<>>]
    /\ afterStop = [w \in Workers |-> 0]
    /\ lateStart = {}
    /\ statusLog = <<>>

SearchNext ==
    \/ \E q \in Queries : SearchBegin(q)
    \/ SearchLock \/ SearchScan \/ SearchUnlock

SettingsSpec == Init /\ [][SNext]_vars

QuerySpec == Init /\ [][KNext]_vars

TokensSpec == Init /\ [][TNext]_vars

WatcherSpec == Init /\ [][FNext]_vars

IndexSpec == Init /\ [][MNext]_vars

LoaderSpec == Init /\ [][PNext]_vars

WalkSpec == Init /\ [][WNext]_vars

ResultsSpec == Init /\ [][RNext]_vars

LruSpec == LruInit /\ [][LNext]_vars

QueueSpec == Init /\ [][QNext]_vars

QueueRestartSpec == Init /\ [][QRNext]_vars

EngineSpec == Init /\ [][ENext]_vars

SearchSpec == SearchInit /\ [][SearchNext]_vars

LoggerSpec == Init /\ [][GNext]_vars

LoggerLiveSpec == Init /\ [][GNext]_vars /\ LoggerFairness

\* Scheduling of the engine's threads: every thread keeps running, and a
\* thread that finds m_indexMutex free again and again gets it.  Typing a
\* query and closing the window are never forced.
EngineFairness ==
    /\ \A w \in Workers :
          /\ WF_vars(WorkerEntry(w) \/ WorkerCount(w) \/ WorkerStatus(w) \/ WorkerNext(w))
          /\ SF_vars(WorkerAppend(w))
    /\ WF_vars(BgBegin \/ UserSpawnTest \/ UserSpawnCreate \/ UserJoin
                \/ DriveSpawnTest \/ DriveSpawnCreate \/ DriveJoin \/ BgEnd)
    /\ WF_vars(SearchScan \/ SearchUnlock)
    /\ WF_vars(ShutdownJoin)

EngineLiveSpec == Init /\ [][ENext]_vars /\ EngineFairness

\* Scheduling: a thread inside a call keeps running (weak fairness of each of
\* its steps), a thread that finds the mutex free again and again gets it
\* (strong fairness of the acquisitions), and the deadline of a timed wait
\* passes.  Starting a call and a spurious wake-up are never forced.
QueueFairness ==
    /\ \A p \in Producers : SF_vars(PushLocked(p))
    /\ \A c \in Consumers :
          /\ SF_vars(PopLock(c)) /\ SF_vars(TimedPopLock(c)) /\ SF_vars(TimedPopExpired(c))
          /\ WF_vars(PopWait(c)) /\ WF_vars(PopCheck(c))
          /\ WF_vars(TimedPopWait(c))
          /\ WF_vars(TimedPopTimeout(c)) /\ WF_vars(TimedPopCheck(c))
    /\ WF_vars(ShutdownNotify)

QueueLiveSpec == Init /\ [][QNext]_vars /\ QueueFairness

\* The consumer is inside a blocking pop().
InBlockingPop(c) == qpc[c] \in {"pop_lock", "pop_wait", "pop_check"}

\* C1: after shutdown() (restart() is not among the operations of QNext, so
\* the flag stays set), every consumer that is inside a blocking pop(), at
\* its test, about to wait or blocked, eventually returns.
C1_ShutdownReleasesEveryConsumer ==
    \A c \in Consumers : (shutdown_ /\ InBlockingPop(c)) ~> (qpc[c] = "idle")


\* The step is the return of consumer c's blocking pop().
PopReturns(c) == qpc[c] = "pop_check" /\ qpc'[c] = "idle"

\* The step belongs to shutdown(): the store or the notify_all.
ShutdownStep == qpc'[Controller] # qpc[Controller]

\* C2: queued elements drain first after shutdown: no step of shutdown()
\* changes the queue; a blocking pop() returns none only when the flag is set
\* and the queue is empty; and a blocking pop() that returns while the flag is
\* set and elements are queued returns the front element and removes exactly
\* that element, the rest keeping their order.
C2_QueuedItemsDrainFirst ==
    [][ /\ (ShutdownStep => queue_' = queue_)
        /\ \A c \in Consumers :
             PopReturns(c) =>
               /\ (ret'[c].ok = "false" => shutdown_ /\ queue_ = <<>>)
               /\ (shutdown_ /\ queue_ # <<>> =>
                     /\ ret'[c].ok = "true"
                     /\ popLog' = Append(popLog, queue_[1])
                     /\ queue_' = SubSeq(queue_, 2, Len(queue_)))
      ]_vars

\* Witness of C2: a blocking pop() returned an element after shutdown while
\* another element was still queued behind it.
C2_Witness ==
    \E c \in Consumers :
        /\ ret[c].via = "pop" /\ ret[c].ok = "true" /\ ret[c].sd
        /\ qpc[c] = "idle"
        /\ queue_ # <<>>

\* C9: FIFO per producer: of any two dequeued elements of the same producer,
\* the one pushed earlier was dequeued earlier, whichever pop variant and
\* consumer took them.
C9_FifoPerProducer ==
    \A i, j \in 1..Len(popLog) :
        (i < j /\ popLog[i][1] = popLog[j][1]) => popLog[i][2] < popLog[j][2]

\* Witness of C9: two elements of one producer were dequeued with an element
\* of the other producer between them, by different pop variants.
C9_Witness ==
    /\ Len(popLog) = 3
    /\ popLog[1][1] = popLog[3][1]
    /\ popLog[2][1] # popLog[1][1]
    /\ \E c, d \in Consumers : c # d /\ ret[c].via = "timed" /\ ret[d].via = "try"
                              /\ ret[c].ok = "true" /\ ret[d].ok = "true"

\* C10 as stated: a push that finds the shutdown flag set returns false.
C10_RejectedPushReturnsFalse ==
    \A p \in Producers : pushed[p].outcome = "dropped" => pushed[p].ret = "false"

\* C10 as amended: a push that finds the shutdown flag set is a silent no-op:
\* the call ends at once, the queue contents and their order are unchanged,
\* the element is dropped, and push, being void, returns nothing to the caller.
C10_RejectedPushIsSilentNoOp ==
    [][ \A p \in Producers :
          (pushed'[p].n = pushed[p].n + 1 /\ shutdown_) =>
             /\ queue_' = queue_
             /\ qpc'[p] = "idle"
             /\ pushed'[p].outcome = "dropped"
             /\ pushed'[p].ret = "void"
      ]_vars

\* Witness of C10: a push was rejected while elements were queued.
C10_Witness ==
    \E p \in Producers : pushed[p].outcome = "dropped" /\ shutdown_ /\ queue_ # <<>>


\* ---- claims about the engine ----

\* C3 as stated: once the crawl is over no file is represented by more than
\* one record of the index.
C3_NoFileIndexedTwice ==
    bg.pc = "done" =>
        \A i, j \in 1..Len(m_fileIndex) :
            i # j => NodeOf(m_fileIndex[i].path) # NodeOf(m_fileIndex[j].path)

\* Every record of the index is complete: its path names a file of the file
\* system, its name is that file's name and its lowerName the lowered name.
CompleteRecords ==
    \A i \in 1..Len(m_fileIndex) :
        LET r == m_fileIndex[i]
            n == NodeOf(r.path)
        IN  /\ n # "none" /\ FS[n].kind = "file"
            /\ r.name = FS[n].name
            /\ r.lowerName = ToLower(Chars(r.name))

\* Every crawler worker and the background indexer have returned.
CrawlReturned ==
    /\ bg.pc = "done"
    /\ \A w \in Workers : worker[w].st \in {"unborn", "done"}

C5_PriorityPhaseCompletesFirst ==
    (\E d \in DriveWorkers : worker[d].st # "unborn")
        => \A u \in UserWorkers : worker[u].st \in {"unborn", "done"}

\* Witness of C5: the two priority-phase workers ran concurrently (the second
\* one's record precedes the first one's), both have terminated, and a
\* bulk-phase worker is running and has appended a record.
C5_Witness ==
    /\ Len(m_fileIndex) >= 3
    /\ NodeOf(m_fileIndex[1].path) = "b" /\ NodeOf(m_fileIndex[2].path) = "a"
    /\ m_fileIndex[1].path[1] = "C:\\Desktop"
    /\ m_fileIndex[3].path[1] \in {"C:\\", "D:\\"}
    /\ \E d \in DriveWorkers : worker[d].st = "running"
    /\ \A u \in UserWorkers : worker[u].st = "done"

\* The paths of the first SearchLimit records of idx whose lowered name
\* contains q, in index order.
RECURSIVE MatchPaths(_, _)
MatchPaths(idx, q) ==
    IF idx = <<>> THEN <<>>
    ELSE LET rest == MatchPaths(SubSeq(idx, 1, Len(idx) - 1), q)
             last == idx[Len(idx)]
         IN  IF Contains(last.lowerName, q) /\ Len(rest) < SearchLimit
               THEN Append(rest, last.path)
               ELSE rest

\* C6: a search never sees the index change under it.  While the scan runs
\* the index equals what it was when the scan took the lock (no record is
\* appended meanwhile) and the results so far are the matches of the part
\* scanned; the result set returned is the set of matches over the index at
\* that one instant, and every path returned belongs to a record of the index.
C6_SearchSeesOneInstant ==
    /\ ui.pc \in {"s_scan", "s_unlock"} =>
          /\ m_indexMutex = "ui"
          /\ m_fileIndex = ui.snap
          /\ ui.i <= Len(ui.snap) + 1
          /\ ui.results = MatchPaths(SubSeq(ui.snap, 1, ui.i - 1), ui.q)
    /\ (ui.pc \in {"ready", "sd_join", "down", "destroyed"} /\ ui.q # <<>>) =>
          /\ ui.results = MatchPaths(ui.snap, ui.q)
          /\ \A k \in 1..Len(ui.results) :
                \E j \in 1..Len(m_fileIndex) : m_fileIndex[j].path = ui.results[k]

\* Witness of C6: a search that ran while crawler workers were running has
\* returned matches, and a worker has appended to the index since.
C6_Witness ==
    /\ ui.pc = "ready" /\ ui.q # <<>>
    /\ Len(ui.results) >= 2
    /\ Len(m_fileIndex) > Len(ui.snap)
    /\ \E w \in Workers : worker[w].st = "running"

\* ---- claims about the cache ----

LruKeys == {nodeList_[i].key : i \in 1..Len(nodeList_)}

\* The key of the entry touched (inserted, updated or read) least recently.
LeastRecentlyTouched ==
    nodeList_[CHOOSE i \in 1..Len(nodeList_) :
        \A j \in 1..Len(nodeList_) : nodeList_[i].accessTime <= nodeList_[j].accessTime].key

PutOfNewKey(key) ==
    /\ lruOps' = lruOps + 1
    /\ lastOp'.op = "put" /\ lastOp'.key = key
    /\ key \notin LruKeys

\* C7: a put of a new key into a cache whose size equals its capacity evicts
\* exactly one entry, the least recently touched one, adds one to the
\* eviction count and leaves the new key most recently used; with the size
\* below the capacity it evicts nothing.
C7_PutEvictsLeastRecentlyTouched ==
    [][ \A key \in Keys : PutOfNewKey(key) =>
          /\ nodeList_'[1].key = key
          /\ currentSize_ = capacity_ =>
                /\ LruKeys' = (LruKeys \ {LeastRecentlyTouched}) \cup {key}
                /\ Len(nodeList_') = Len(nodeList_)
                /\ evictionCount_' = evictionCount_ + 1
          /\ currentSize_ < capacity_ =>
                /\ LruKeys' = LruKeys \cup {key}
                /\ Len(nodeList_') = Len(nodeList_) + 1
                /\ evictionCount_' = evictionCount_ ]_vars

\* Witness of C7: the last call was a put of a new key into a full cache of
\* capacity two or more, and the entry it evicted was not the oldest
\* insertion: the surviving entry was inserted before the evicted one and
\* read since.
C7_Witness ==
    /\ lastOp.op = "put" /\ ~lastOp.found /\ lastOp.evicted # {}
    /\ capacity_ >= 2 /\ currentSize_ = capacity_
    /\ nodeList_[1].key = lastOp.key
    /\ hitCount_ >= 1
    /\ \E i \in 2..Len(nodeList_) : nodeList_[i].accessTime > nodeList_[i].id + 1

\* C8: after any sequence of put, get, remove, clear and resize the size is
\* between 0 and the capacity and the capacity is at least 1, a requested
\* capacity of 0 being treated as 1.
C8_SizeWithinCapacity ==
    /\ 0 <= currentSize_ /\ currentSize_ <= capacity_
    /\ capacity_ >= 1
    /\ currentSize_ = Len(nodeList_)

\* Witness of C8: a cache of capacity 1 (built with 0 or 1, or resized to
\* it) is full, entries have been evicted twice, and the last call was a put
\* of a new key that replaced the entry left.
C8_Witness ==
    /\ capacity_ = 1 /\ currentSize_ = 1
    /\ evictionCount_ >= 2
    /\ lastOp.op = "put" /\ ~lastOp.found /\ lastOp.evicted # {}
    /\ now_ >= 4

\* The stored entries, most recently used first, as <<key, value>> pairs.
Stored == [i \in 1..Len(nodeList_) |-> <<nodeList_[i].key, nodeList_[i].value>>]

\* The stored entries other than key's, in recency order.
StoredExcept(key) == SelectSeq(Stored, LAMBDA e : e[1] # key)

ValueOf(key) == nodeList_[CHOOSE i \in 1..Len(nodeList_) : nodeList_[i].key = key].value

GetOf(key) ==
    /\ lruOps' = lruOps + 1
    /\ lastOp'.op = "get" /\ lastOp'.key = key

\* C11: get(k) on a hit returns the value most recently put for k, makes k
\* the most recently used entry and adds one to hits, leaving misses,
\* evictions, size and all stored values as they were; on a miss it adds one
\* to misses and leaves contents, recency order, hits and evictions alone.
C11_GetHitAndMiss ==
    [][ \A key \in Keys : GetOf(key) =>
          IF key \in LruKeys
            THEN /\ lastOp'.found /\ lastOp'.ret = lastPut[key]
                 /\ nodeList_'[1].key = key
                 /\ nodeList_'[1].accessTime >= now_
                 /\ hitCount_' = hitCount_ + 1
                 /\ UNCHANGED <<missCount_, evictionCount_, currentSize_, capacity_>>
                 /\ ValueOf(key)' = ValueOf(key)
                 /\ StoredExcept(key)' = StoredExcept(key)
                 /\ Len(nodeList_') = Len(nodeList_)
            ELSE /\ ~lastOp'.found /\ lastOp'.ret = "none"
                 /\ missCount_' = missCount_ + 1
                 /\ UNCHANGED <<nodeList_, hashMap_, hitCount_, evictionCount_,
                                currentSize_, capacity_>> ]_vars

\* Witness of C11: a hit has just moved an entry that was inserted before
\* another one to the front, and returned the value last put for its key.
C11_Witness ==
    /\ lastOp.op = "get" /\ lastOp.found
    /\ lastOp.ret = "v2" /\ lastPut[lastOp.key] = "v2"
    /\ Len(nodeList_) >= 2 /\ nodeList_[1].key = lastOp.key
    /\ nodeList_[1].id < nodeList_[2].id
    /\ hitCount_ = 1

PutOfPresentKey(key) ==
    /\ lruOps' = lruOps + 1
    /\ lastOp'.op = "put" /\ lastOp'.key = key
    /\ key \in LruKeys

\* C12: a put of a key that is present replaces its value and makes it the
\* most recently used entry and evicts nothing: size, evictions and every
\* other entry, value and relative order, are unchanged, also when the size
\* equals the capacity.
C12_PutOfPresentKeyEvictsNothing ==
    [][ \A key \in Keys : PutOfPresentKey(key) =>
          /\ lastOp'.found /\ lastOp'.evicted = {}
          /\ nodeList_'[1].key = key
          /\ nodeList_'[1].value = lastOp'.arg
          /\ UNCHANGED <<currentSize_, evictionCount_, capacity_, hitCount_, missCount_>>
          /\ Len(nodeList_') = Len(nodeList_)
          /\ StoredExcept(key)' = StoredExcept(key) ]_vars

\* Witness of C12: a put has just replaced the value of the least recently
\* used entry of a full cache of two or more entries.
C12_Witness ==
    /\ lastOp.op = "put" /\ lastOp.found
    /\ currentSize_ = capacity_ /\ capacity_ >= 2
    /\ nodeList_[1].key = lastOp.key
    /\ nodeList_[1].value = "v2"
    /\ nodeList_[1].id < nodeList_[2].id
    /\ evictionCount_ = 0

ResizeTo(n) ==
    /\ lruOps' = lruOps + 1
    /\ lastOp'.op = "resize" /\ lastOp'.arg = n

Min(a, b) == IF a < b THEN a ELSE b
Max(a, b) == IF a > b THEN a ELSE b

\* C13: resize(n) trims to the new capacity by repeated LRU eviction: the
\* size becomes min(old size, max(n, 1)), the entries removed are exactly the
\* least recently used ones, the survivors keep their values and their
\* relative recency order, and evictions grows by the number removed.
C13_ResizeTrimsLeastRecentlyUsed ==
    [][ \A n \in 0..MaxCap : ResizeTo(n) =>
          /\ capacity_' = Max(n, 1)
          /\ currentSize_' = Min(currentSize_, Max(n, 1))
          /\ Len(nodeList_') = currentSize_'
          /\ nodeList_' = SubSeq(nodeList_, 1, currentSize_')
          /\ \A i \in 1..Len(nodeList_) : \A j \in 1..Len(nodeList_') :
                i > Len(nodeList_') => nodeList_[i].accessTime < nodeList_'[j].accessTime
          /\ evictionCount_' = evictionCount_ + (currentSize_ - currentSize_')
          /\ lastOp'.evicted = LruKeys \ LruKeys' ]_vars

\* Witness of C13: a resize has just removed an entry that was inserted
\* after the surviving one, the survivor having been read since.
C13_Witness ==
    /\ lastOp.op = "resize" /\ lastOp.evicted # {}
    /\ currentSize_ = capacity_ /\ currentSize_ >= 1
    /\ hitCount_ >= 1
    /\ nodeList_[1].accessTime > nodeList_[1].id + 1

\* ---- claims about SearchResults ----

SameResults(s, t) == {s[i] : i \in 1..Len(s)} = {t[i] : i \in 1..Len(t)}

\* C14 as stated: every relevance sort leaves the results in descending
\* score with equal scores in ascending normalized name, and two relevance
\* sorts of the same set of results leave the identical order.
C14_RelevanceSortDeterministic ==
    /\ \A k \in 1..Len(sortLog) :
          LET out == sortLog[k].output
          IN  \A i, j \in 1..Len(out) : i < j => ~ScoreThenName(out[j], out[i])
    /\ \A k, l \in 1..Len(sortLog) :
          SameResults(sortLog[k].input, sortLog[l].input)
              => sortLog[k].output = sortLog[l].output

\* ---- claims about the per-file and per-directory rules ----

\* C15 as stated (its attribute part): no hidden or system file is ever
\* added to the index.
C15_NoHiddenOrSystemFileIndexed ==
    \A i \in 1..Len(m_fileIndex) :
        FS[NodeOf(m_fileIndex[i].path)].attrs \cap {"hidden", "system"} = {}

\* C16 as stated: in every walk "." and ".." are skipped, a directory is
\* skipped when it is system or hidden or named after one of the six system
\* roots, and every other directory is descended.
C16_DirectoryRule ==
    (entryOutcome.walk # "none" /\ (findData.kind = "dir" \/ findData.name \in {".", ".."})) =>
        IF \/ findData.name \in {".", ".."}
           \/ findData.attrs \cap {"hidden", "system"} # {}
           \/ findData.name \in {"Windows", "Program Files", "Program Files (x86)",
                                 "ProgramData", "System Volume Information", "$Recycle.Bin"}
          THEN entryOutcome.did = "skip"
          ELSE entryOutcome.did = "descend"

\* ---- claims about progress, parallelism and shutdown ----

\* The multiples of ProgressEvery the counter has reached.
MultiplesReached == {n \in 1..m_indexedFiles : n % ProgressEvery = 0}

\* The counter values whose progress status is still to come: a worker has
\* fetched the value and not yet made the test of line 273.
StatusPending == {worker[w].currentCount : w \in {x \in Workers : worker[x].pc = "status"}}

\* C17: the progress counter only ever grows, by exactly one per file
\* indexed, and a progress status carrying the counter value is emitted
\* exactly once for each multiple of ProgressEvery the counter reaches, under
\* every interleaving of the workers: none is skipped, none reported twice.
C17_ProgressExactlyOncePerMultiple ==
    /\ [][ /\ m_indexedFiles' >= m_indexedFiles
           /\ m_indexedFiles' - m_indexedFiles <= 1
           /\ (\E w \in Workers : worker[w].pc = "append" /\ worker'[w].pc = "count")
                 => Len(m_fileIndex') = Len(m_fileIndex) + 1 /\ m_indexedFiles' = m_indexedFiles
           /\ (\E w \in Workers : worker[w].pc = "count" /\ worker'[w].pc = "status")
                 <=> m_indexedFiles' = m_indexedFiles + 1 ]_vars
    /\ [](/\ \A i, j \in 1..Len(statusLog) : statusLog[i] = statusLog[j] => i = j
          /\ {statusLog[i] : i \in 1..Len(statusLog)} \subseteq MultiplesReached
          /\ MultiplesReached \ {statusLog[i] : i \in 1..Len(statusLog)} \subseteq StatusPending
          /\ m_indexedFiles <= Len(m_fileIndex)
          /\ (\A w \in Workers : worker[w].pc \notin {"count", "status"})
                => m_indexedFiles = Len(m_fileIndex))

\* Witness of C17: two workers count concurrently: one has fetched a
\* multiple of ProgressEvery and not yet emitted its status while the other
\* has already taken the counter past it; an earlier multiple was reported.
C17_Witness ==
    /\ statusLog = <<ProgressEvery>>
    /\ m_indexedFiles = 2 * ProgressEvery + 1
    /\ \E w \in Workers : worker[w].pc = "status" /\ worker[w].currentCount = 2 * ProgressEvery

\* The smallest thread count a valid configuration holds
\* (AppSettings::validate and sanitize).
MinIndexingThreads == 1

\* C18 as stated, for a configured thread count of MinIndexingThreads: no
\* more bulk-phase workers run at the same time than the configured count.
C18_BulkPhaseBoundedParallel ==
    Cardinality({d \in DriveWorkers : worker[d].st = "running"}) <= MinIndexingThreads

\* C19: when Shutdown() has returned, the background indexer and every
\* worker it created have terminated and nothing appends to the index any
\* more; a second Shutdown() can always be made, changes nothing but the
\* flag it stores again, and returns.
C19_ShutdownJoinsAllThreads ==
    /\ [](ui.pc \in {"down", "destroyed"} =>
            /\ bg.pc = "done"
            /\ \A w \in Workers : worker[w].st \in {"unborn", "done"}
            /\ m_indexMutex = "none"
            /\ m_shouldStop)
    /\ [](ui.pc = "down" => ENABLED ShutdownAgain)
    /\ [][ui.pc \in {"down", "destroyed"} =>
            /\ m_fileIndex' = m_fileIndex
            /\ UNCHANGED <<m_indexedFiles, m_isIndexing, m_shouldStop, bg, worker, statusLog>>
            /\ ui'.pc = "destroyed" ]_vars

\* Witness of C19: the engine was shut down in the middle of the crawl, a
\* worker created after the flag was set included, and shut down again.
C19_Witness ==
    /\ ui.pc = "destroyed"
    /\ lateStart # {}
    /\ Len(m_fileIndex) \in 1..3
    /\ \E w \in Workers : worker[w].st = "unborn"

\* ---- claims about the queue's capacity ----

\* C20 as stated, for any capacity smaller than the number of pushes made:
\* the queue never holds MaxPush elements.
C20_QueueBounded == Len(queue_) < MaxPush


\* ---- claims about restart() ----

\* C21: restart() clears the shutdown flag and nothing else.  The step that
\* clears the flag leaves the queue contents and everything else as they
\* were; a push that finds the flag clear goes on to lock and appends its
\* element at the back; and a blocking pop() whose loop test finds the queue
\* empty and the flag clear does not return: it waits on the condition
\* variable, releasing the mutex.
C21_RestartClearsOnlyTheFlag ==
    [][ /\ (shutdown_ /\ ~shutdown_') =>
              /\ queue_' = queue_
              /\ <<mutex_, condition_, qpc, pushed, ret, popLog>>' =
                    <<mutex_, condition_, qpc, pushed, ret, popLog>>
        /\ \A p \in Producers :
              /\ (pushed'[p].n = pushed[p].n + 1 /\ ~shutdown_) => qpc'[p] = "push_lock"
              /\ (qpc[p] = "push_lock" /\ qpc'[p] = "idle") =>
                    /\ queue_' = Append(queue_, Item(p, pushed[p].n))
                    /\ pushed'[p].outcome = "enqueued"
        /\ \A c \in Consumers :
              /\ (qpc[c] = "pop_lock" /\ qpc'[c] # "pop_lock" /\ queue_ = <<>> /\ ~shutdown_) =>
                    /\ qpc'[c] = "pop_wait"
                    /\ ret'[c].ok = "pending"
              /\ (qpc[c] = "pop_wait" /\ qpc'[c] # "pop_wait") =>
                    /\ c \in condition_'
                    /\ mutex_' = "none"
                    /\ ret'[c].ok = "pending"
      ]_vars

\* Witness of C21: the queue was shut down (one producer's push was dropped)
\* and restarted; the other producer's push was then enqueued and taken, and
\* a consumer is blocked again in pop() on the empty queue.
C21_Witness ==
    /\ ctlOps = 1 /\ ~shutdown_
    /\ \E p, q \in Producers :
          /\ pushed[p].outcome = "dropped"
          /\ pushed[q].outcome = "enqueued"
          /\ popLog = <<Item(q, pushed[q].n)>>
    /\ queue_ = <<>>
    /\ \E c \in Consumers : c \in condition_ /\ qpc[c] = "pop_lock" /\ ret[c].via = "pop"


\* ---- claims about SearchQuery, AppSettings and FileEntry ----

\* 0 <= t <= 1
InUnitInterval(t) == ~t.nan /\ 0 <= t.v /\ t.v <= 100

\* C22 as stated: isValid() accepts a query if and only if its text is not
\* empty, maxResults is at least 1 and fuzzyThreshold lies in [0, 1].
C22_ValidIffInRange ==
    queryValid # "none" =>
        (queryValid = "true" <=>
            /\ searchQuery.query # <<>>
            /\ searchQuery.maxResults >= 1
            /\ InUnitInterval(searchQuery.fuzzyThreshold))

\* C23 as stated: once sanitize() has run, or validate() has accepted the
\* settings, indexingThreads lies in 2..32.
C23_IndexingThreadsInRange ==
    (sanitized \/ validated = "true") =>
        (appSettings.indexingThreads >= 2 /\ appSettings.indexingThreads <= 32)

\* The characters of str that satisfy std::isalnum, in order.
RECURSIVE Alnums(_)
Alnums(str) ==
    IF str = <<>> THEN <<>>
    ELSE (IF IsAlnum(Head(str)) THEN <<Head(str)>> ELSE <<>>) \o Alnums(Tail(str))

\* C24 as stated: the normalized name is lower case, keeps every alphanumeric
\* character of the file name in order, never holds two spaces in a row, and
\* every token is a non-empty piece of the normalized name or the extension.
C24_NormalizedNameCollapsesSeparators ==
    LET n == fileEntry.normalizedName
    IN /\ \A k \in 1..Len(n) : n[k] = ToLowerChar(n[k])
       /\ Alnums(n) = ToLower(Alnums(fileEntry.fileName))
       /\ \A k \in 1..(Len(n) - 1) : ~(n[k] = " " /\ n[k + 1] = " ")
       /\ \A k \in 1..Len(fileEntry.tokens) :
             /\ fileEntry.tokens[k] # <<>>
             /\ \/ Contains(n, fileEntry.tokens[k])
                \/ fileEntry.tokens[k] = ToLower(fileEntry.extension)


\* ---- claims about the cache statistics ----

\* C25: getHitRatio() returns hits / (hits + misses) for the counters as
\* they stand, 0 when both are 0, and changes neither; a get() adds one to
\* hits when it finds the key and one to misses when it does not;
\* resetStatistics() sets both to 0; no other call changes either counter.
C25_HitRatioOfGets ==
    [][ lruOps' # lruOps =>
          /\ lastOp'.op = "getHitRatio" =>
                /\ lastOp'.ret.d > 0
                /\ lastOp'.ret.n * (hitCount_ + missCount_) = hitCount_ * lastOp'.ret.d
                /\ (hitCount_ + missCount_ = 0 => lastOp'.ret.n = 0)
          /\ lastOp'.op = "get" =>
                /\ hitCount_' = hitCount_ + (IF lastOp'.found THEN 1 ELSE 0)
                /\ missCount_' = missCount_ + (IF lastOp'.found THEN 0 ELSE 1)
          /\ lastOp'.op = "resetStatistics" => (hitCount_' = 0 /\ missCount_' = 0)
          /\ lastOp'.op \notin {"get", "resetStatistics"} =>
                (hitCount_' = hitCount_ /\ missCount_' = missCount_)
      ]_vars

\* Witness of C25: after one hit and one miss getHitRatio() returned 1/2.
C25_Witness ==
    /\ lastOp.op = "getHitRatio"
    /\ hitCount_ = 1 /\ missCount_ = 1
    /\ lastOp.ret = [n |-> 1, d |-> 2]


\* ---- claims about the change watcher ----

\* The events received for the path, and those dispatched for it.
ReceivedFor(path) == SelectSeq(received, LAMBDA e : e.path = path)
DispatchedFor(path) == SelectSeq(dispatched, LAMBDA e : e.path = path)

\* The events received for the path so far are a rapid stream of
\* modifications: all are of type modified and all came within the
\* coalescing window that the first of them opened.
RapidModifies(path) ==
    LET r == ReceivedFor(path)
    IN /\ r # <<>>
       /\ \A k \in 1..Len(r) :
             r[k].type = "modified" /\ r[k].at - r[1].at < CoalescingDelay

\* C26: a rapid stream of modified events for one path is dispatched as
\* exactly one modified event, whatever is received for the other paths:
\* never more than one, and exactly one once the window has been closed.
C26_RapidModifiesDispatchedOnce ==
    \A path \in WatchedPaths :
        RapidModifies(path) =>
            /\ Len(DispatchedFor(path)) <= 1
            /\ heldEvent[path] = "none" =>
                  DispatchedFor(path) = <<[path |-> path, type |-> "modified"]>>
            /\ heldEvent[path] # "none" =>
                  (heldEvent[path] = "modified" /\ DispatchedFor(path) = <<>>)

\* Witness of C26: two modified events for one path came within its window
\* and one event for the other path between them; one modified event was
\* dispatched for the first path and the other path's event was dispatched too.
C26_Witness ==
    \E p, q \in WatchedPaths :
        /\ p # q
        /\ Len(received) = 3
        /\ received[1].path = p /\ received[2].path = q /\ received[3].path = p
        /\ RapidModifies(p)
        /\ DispatchedFor(p) = <<[path |-> p, type |-> "modified"]>>
        /\ Len(DispatchedFor(q)) = 1
        /\ heldEvent = [x \in WatchedPaths |-> "none"]


\* ---- claims about the memory index ----

\* C27: a rename is transactional and keeps the record id.  Once the writer
\* has committed the rename, the old path looks up nothing and the new path
\* looks up a record with the id the old path had; and a reader that looks up
\* both paths while it holds the shared lock finds the record under exactly
\* one of them: under the new path alone after the rename, and never while
\* the rename is being made.
C27_RenameIsTransactional ==
    /\ (txn.kind = "renamed" /\ ~indexLock.writer) =>
          /\ pathToId_[txn.path] = 0
          /\ pathToId_[txn.newPath] = txn.id
          /\ txn.id # 0
          /\ files_[txn.id] # NoFile
          /\ files_[txn.id].path = txn.newPath
    /\ reader.pc # "idle" => ~indexLock.writer
    /\ (reader.pc = "done" /\ txn.kind = "renamed") =>
          /\ (reader.p = txn.path /\ reader.q = txn.newPath) => reader.seen = <<0, txn.id>>
          /\ (reader.p = txn.newPath /\ reader.q = txn.path) => reader.seen = <<txn.id, 0>>

\* Witness of C27: a record was created with id 1 and renamed, and a reader
\* looked up the old path and then the new one under the shared lock.
C27_Witness ==
    /\ txn.kind = "renamed"
    /\ txn.id = 1
    /\ reader.pc = "done"
    /\ reader.p = txn.path
    /\ reader.q = txn.newPath
    /\ reader.seen = <<0, 1>>

C29_InvertedConsistency ==
    ~indexLock.writer =>
        /\ \A id \in LiveIds : \A t \in files_[id].tokens : id \in tokenToFiles_[t]
        /\ \A t \in IndexTokens : \A id \in tokenToFiles_[t] :
              id \in LiveIds /\ t \in files_[id].tokens
        /\ \A id \in FileIds : fileToTokens_[id] = files_[id].tokens
        /\ txn.kind = "modified" =>
              \A t \in IndexTokens \ files_[txn.id].tokens : txn.id \notin tokenToFiles_[t]

\* Witness of C29: of two records with the tokens t1 and t2, the first was
\* updated to the tokens t2 and t3.
C29_Witness ==
    /\ ~indexLock.writer
    /\ txn.kind = "modified"
    /\ txn.id = 1
    /\ LiveIds = {1, 2}
    /\ tokenToFiles_ = [t \in IndexTokens |->
                           CASE t = "t1" -> {2} [] t = "t2" -> {1, 2} [] t = "t3" -> {1}]


\* ---- claims about progressive loading ----

\* The number of places, in the queue and at the workers, where the path waits
\* for its load or is being loaded.
LoadsInHand(path) ==
    Cardinality({k \in 1..Len(loadingQueue_) : loadingQueue_[k] = path})
        + Cardinality({w \in LoaderThreads : loading[w] = path})

C31_PopNeverTakesFromEmptyQueue ==
    [][Len(popLog') > Len(popLog) =>
          /\ queue_ # <<>>
          /\ popLog' = Append(popLog, Head(queue_))]_vars

\* The elements the pops have returned, followed by those still in the queue.
QueueHistory == popLog \o queue_

\* C32: the queue neither loses nor duplicates elements.  In every step other
\* than a clear(), the elements returned so far followed by the queue's
\* content stay as they are or gain the element an accepted push enqueues, no
\* element is returned or queued twice, and every element returned or queued
\* is one that a producer pushed.
C32_NoLossNoDuplication ==
    [][~(ctlOps' # ctlOps /\ qpc'[Controller] = "idle") =>
          /\ \/ QueueHistory' = QueueHistory
             \/ \E p \in Producers :
                   /\ qpc[p] = "push_lock"
                   /\ QueueHistory' = Append(QueueHistory, Item(p, pushed[p].n))
                   /\ popLog' = popLog
          /\ Len(popLog') >= Len(popLog)
          /\ \A i, j \in 1..Len(QueueHistory') :
                i # j => QueueHistory'[i] # QueueHistory'[j]
          /\ \A i \in 1..Len(QueueHistory') :
                \E p \in Producers : \E k \in 1..pushed'[p].n :
                    QueueHistory'[i] = Item(p, k)]_vars


\* ---- further claims about the search engine ----

\* C33: IsIndexing() reports true from the return of Initialize() for as long
\* as the background thread has not finished both crawl phases, and false once
\* the thread is done.
C33_IsIndexingWhileCrawling ==
    /\ bg.pc \notin {"finish", "done"} => m_isIndexing
    /\ bg.pc = "done" => ~m_isIndexing


\* ---- further claims about the settings ----

\* C34: the settings that sanitize() leaves are accepted by validate(),
\* whatever the five members held before, and sanitizing them again changes
\* nothing.
C34_SanitizedSettingsAreValid ==
    sanitized =>
        /\ Validate(appSettings)
        /\ Sanitize(appSettings) = appSettings

\* Witness of C34: sanitize() was called on settings with a cache size above
\* the memory limit, itself below its minimum, and a threshold above 1.
C34_Witness ==
    /\ sanitized
    /\ validated = "true"
    /\ appSettings.indexingThreads = 1
    /\ appSettings.maxMemoryUsage = 64
    /\ appSettings.cacheSize = 64
    /\ appSettings.fuzzyThreshold = Double(100)

\* C35: the default settings are valid on every machine: whatever
\* hardware_concurrency() returns, setDefaults() leaves indexingThreads at the
\* larger of 2 and that number, and the settings pass validate().
C35_DefaultsAreValid ==
    defaultsFor # -1 =>
        /\ appSettings.indexingThreads = (IF defaultsFor > 2 THEN defaultsFor ELSE 2)
        /\ Validate(appSettings)


\* ---- a further claim about SearchInstant ----

\* The records of the index whose lower-cased name contains the query, in
\* the order of the index.
Hits(q) ==
    SelectSeq(m_fileIndex,
              LAMBDA file : \E k \in 0..(Len(file.lowerName) - Len(q)) :
                                SubSeq(file.lowerName, k + 1, k + Len(q)) = q)

\* C36: SearchInstant returns the paths of the first min(100, m) of the m
\* records whose lower-cased name contains the lower-cased query, in the
\* order of the index; an empty query returns nothing, and never gets as far
\* as the index lock or the scan.
C36_SearchInstantReturnsFirstMatches ==
    /\ ui.pc # "ready" => ui.q # <<>>
    /\ ui.pc = "ready" =>
          LET hits == IF ui.q = <<>> THEN <<>> ELSE Hits(ui.q)
              m == Len(hits)
          IN  ui.results = [k \in 1..(IF m < 100 THEN m ELSE 100) |-> hits[k].path]

\* Witness of C36: the index holds 102 records of which all but the first
\* match; the search returned the paths of the records 2 to 101.
C36_Witness ==
    /\ ui.pc = "ready"
    /\ ui.q = <<"a", "b">>
    /\ Len(m_fileIndex) = 102
    /\ Len(Hits(ui.q)) = 101
    /\ Len(ui.results) = 100
    /\ ui.results[1] = m_fileIndex[2].path
    /\ ui.results[100] = m_fileIndex[101].path


\* ---- a further claim about the LRU cache ----

\* C37: after every call, the key-to-node map and the recency list hold the
\* same keys, each key once in the list, every map entry points at the list
\* node that carries its key, and size() is the number of keys.
C37_MapAndListAgree ==
    /\ DOMAIN hashMap_ = {nodeList_[k].key : k \in 1..Len(nodeList_)}
    /\ \A i, j \in 1..Len(nodeList_) :
          i # j => /\ nodeList_[i].key # nodeList_[j].key
                   /\ nodeList_[i].id # nodeList_[j].id
    /\ \A key \in DOMAIN hashMap_ :
          \E k \in 1..Len(nodeList_) :
              nodeList_[k].id = hashMap_[key] /\ nodeList_[k].key = key
    /\ currentSize_ = Cardinality(DOMAIN hashMap_)

\* Witness of C37: two keys are cached, the one put first is at the front
\* again because a get touched it, and an entry has been evicted before.
C37_Witness ==
    /\ Len(nodeList_) = 2
    /\ nodeList_[1].id < nodeList_[2].id
    /\ lastOp.op = "get"
    /\ evictionCount_ >= 1


\* ---- a claim about the logger ----

\* C38: destroying the logger flushes and terminates: once the destructor has
\* given the stop signal, it returns, and every entry that log() accepted has
\* then been written once, in the order of acceptance.
C38_DestructorFlushesAndReturns ==
    (logpc.main = "d_notify") ~> (logpc.main = "destroyed" /\ written = accepted)


\* ---- a claim about the indexed-file counter ----

\* The workers that have appended a record and not yet counted it.
BetweenAppendAndCount == {w \in Workers : worker[w].pc = "count"}

\* C39: the published counter m_indexedFiles never exceeds the number of
\* records in m_fileIndex; it is short of it by the number of workers between
\* their append and their increment, and so equals it when there is none, as
\* after the crawl.
C39_CounterNeverAhead ==
    /\ m_indexedFiles <= Len(m_fileIndex)
    /\ Len(m_fileIndex) - m_indexedFiles = Cardinality(BetweenAppendAndCount)
    /\ bg.pc = "done" => m_indexedFiles = Len(m_fileIndex)

\* Witness of C39: two workers are between their append and their increment;
\* the index holds two records and the counter still reads 0.
C39_Witness ==
    /\ Cardinality(BetweenAppendAndCount) = 2
    /\ Len(m_fileIndex) = 2
    /\ m_indexedFiles = 0

====
